---- MODULE Spec2Model ----
(***************************************************************************)
(* Model of the simple-gp race simulation: the Bezier sampler, the racer   *)
(* entity, PhysicsEngine.updateRacer / resolveCollisions and the session   *)
(* tick that drives them.                                                  *)
(*                                                                         *)
(* JavaScript numbers are IEEE doubles; here every real quantity is a      *)
(* fixed-point integer:                                                    *)
(*   positions and distances   1/100 px                                    *)
(*   speeds, accelerations     1/10000 px per tick                         *)
(*   angles                    1/100 rad   (pi = 314, 2*pi = 628)          *)
(*   fuel, tires               1/10000 of a unit  (100 units = 1000000)    *)
(*   multipliers, unit vectors, Math.random()   1/1000                     *)
(*   progress                  1/1000000 of a lap                          *)
(* Divisions truncate toward zero.  Math.random() is a pseudo random       *)
(* generator whose hidden state is the variable rngState.                  *)
(***************************************************************************)
EXTENDS Integers, Sequences, FiniteSets, TLC

VARIABLES
  bezierNodes,     \* session.bezierNodes
  racingPath,      \* session.racingPath, as the node list it was sampled from
  racers,          \* session.racers
  totalLaps,       \* session.totalLaps
  raceFrameCount,  \* session.raceFrameCount
  raceFinished,    \* session.raceFinished
  pc,              \* position inside RaceSession.update
  idx,             \* next racer of the racers.forEach loop
  rngState,        \* hidden state of Math.random
  now,             \* performance.now()
  headless,        \* a HeadlessRaceSimulator: racers, frameCount, raceFinished,
                   \* finishOrder, totalLaps, and runRace's argument maxFrames
  loop,            \* GameManager's game loop: accumulator, lastTimestamp,
                   \* isPaused, and the ticks run by the current gameLoop call
  trackType,       \* the track id the session or simulator was created with
  trackEditor,     \* session.trackEditor: enabled, creationMode, dragTarget
  manager          \* GameManager: animationFrameId, the animation frames
                   \* requested, the sessions and their pending init

vars == <<bezierNodes, racingPath, racers, totalLaps, raceFrameCount,
          raceFinished, pc, idx, rngState, now, headless, loop, trackType,
          trackEditor, manager>>

----------------------------------------------------------------------------
(* Bounds of the model *)

NumRacers == 2
MaxFrames == 900
MaxSeed == 0
MaxLaps == 2
MaxLateTicks == 20
CrowdSize == 3

\* Node counts the track editor's Delete key can leave of the stadium track
TrackSizes == {5, 7}

\* Where a harness puts the racers: on the session's start grid, or all on
\* the first grid slot
Placements == {"grid", "same"}

----------------------------------------------------------------------------
(* Arithmetic of the JavaScript runtime, in fixed point *)

Abs(a) == IF a < 0 THEN -a ELSE a

Sign(a) == IF a < 0 THEN -1 ELSE IF a > 0 THEN 1 ELSE 0

Min(a, b) == IF a < b THEN a ELSE b

Max(a, b) == IF a > b THEN a ELSE b

\* a / b truncated toward zero (b > 0)
Div(a, b) == IF a < 0 THEN -((-a) \div b) ELSE a \div b

\* a / b rounded to the nearest integer (b > 0)
Round(a, b) == Div(2 * a + Sign(a) * b, 2 * b)

RECURSIVE SqrtSearch(_, _, _)
SqrtSearch(n, lo, hi) ==
  IF lo >= hi THEN lo
  ELSE LET mid == (lo + hi + 1) \div 2
       IN IF mid * mid <= n THEN SqrtSearch(n, mid, hi)
                            ELSE SqrtSearch(n, lo, mid - 1)

\* floor(sqrt(n)) for 0 <= n < 2^31
Sqrt(n) == SqrtSearch(n, 0, 46340)

\* Math.hypot(dx, dy); arguments are at most 30000 in absolute value
Hypot(dx, dy) == Sqrt(dx * dx + dy * dy)

\* Math.hypot(dx, dy) < r, without forming squares that do not fit
HypotLess(dx, dy, r) ==
  /\ Abs(dx) < r
  /\ Abs(dy) < r
  /\ dx * dx + dy * dy < r * r

\* Math.hypot(dx, dy) > r
HypotGreater(dx, dy, r) ==
  \/ Abs(dx) > r
  \/ Abs(dy) > r
  \/ dx * dx + dy * dy > r * r

\* Math.sin on [0, pi], in thousandths (Bhaskara's rational approximation)
SinHalf(a) ==
  LET p == a * (314 - a)
  IN (16000 * p) \div (5 * 314 * 314 - 4 * p)

\* Math.sin(a) in thousandths, a in 1/100 rad
Sin(a) ==
  LET m == a % 628
  IN IF m <= 314 THEN SinHalf(m) ELSE -SinHalf(m - 314)

\* Math.cos(a) in thousandths
Cos(a) == Sin(a + 157)

\* Math.atan(z / 1000) for 0 <= z <= 1000, in 1/100 rad
AtanUnit(z) == (z * (785 + (273 * (1000 - z)) \div 1000)) \div 10000

\* Math.atan2 of two non-negative arguments, result in 0..157
AtanQuadrant(y, x) ==
  IF x = 0 /\ y = 0 THEN 0
  ELSE IF y <= x THEN AtanUnit((y * 1000) \div x)
  ELSE 157 - AtanUnit((x * 1000) \div y)

\* Math.atan2(dy, dx) in 1/100 rad, result in -314..314
\* (arguments are scaled down to keep the products in range)
Atan2(dy, dx) ==
  LET s == 1 + (Max(Abs(dx), Abs(dy)) \div 100000)
      y == Abs(dy) \div s
      x == Abs(dx) \div s
      q == AtanQuadrant(y, x)
  IN IF dx >= 0 THEN (IF dy >= 0 THEN q ELSE -q)
     ELSE (IF dy >= 0 THEN 314 - q ELSE q - 314)

\* Math.random(): a linear congruential generator of full period on 0..999
NextRandom(s) == (21 * s + 7) % 1000

----------------------------------------------------------------------------
(* Configuration *)

GAME_CONFIG ==
  [ fps                       |-> 60,
    racerRadius               |-> 700,      \* 7 px
    velocity                  |-> 24000,    \* 2.4 px per tick
    startDelayFrames          |-> 260,
    fuelDrainBase             |-> 300,      \* 0.003   (1/100000)
    fuelDrainEngineMultiplier |-> 200,      \* 0.002
    tireDrainBase             |-> 250,      \* 0.0025
    tireDrainTireMultiplier   |-> 300,      \* 0.003
    speedBaseMultiplier       |-> 850,      \* 0.85
    speedEngineBonus          |-> 350,      \* 0.35
    speedNoFuelPenalty        |-> 400,      \* 0.4
    speedLowTireThreshold     |-> 200000,   \* 20 units
    speedLowTireBase          |-> 600,      \* 0.6
    speedLowTireMultiplier    |-> 400,      \* 0.4
    speedRandomVariation      |-> 30,       \* 0.03
    normalAcceleration        |-> 60,       \* 0.006
    deceleration              |-> 30,       \* 0.003
    finishedSpeedMultiplier   |-> 500,      \* 0.5
    lookAheadDistance         |-> 35,
    maxSteerAngle             |-> 12,       \* 0.12 rad
    steeringRandomNoise       |-> 2,        \* 0.02 rad
    emergencyTurnThreshold    |-> 165,      \* pi / 1.9
    sharpTurnDamping          |-> 100,      \* 0.1
    wobbleAmplitude           |-> 500,      \* 5 px
    wobbleFrequency           |-> 5,        \* 0.05 rad per frame
    riskBufferScale           |-> 800,      \* 8 px
    collisionForce            |-> 200,      \* 0.2
    pathCheckDistance         |-> 6000,     \* 60 px
    pathCheckSkip             |-> 100,
    lapWrapThreshold          |-> 900,      \* 0.9
    lapWrapMinDistance        |-> 3000 ]    \* 30 px

BIKE_ARCHETYPE_KEYS == <<"speeder", "accelerator", "turner">>

BIKE_ARCHETYPES ==
  [ speeder     |-> [ topSpeedMultiplier |-> 1060, accelerationMultiplier |-> 850,
                      corneringMultiplier |-> 700, maxSteerMultiplier |-> 850 ],
    accelerator |-> [ topSpeedMultiplier |-> 980, accelerationMultiplier |-> 1400,
                      corneringMultiplier |-> 900, maxSteerMultiplier |-> 1000 ],
    turner      |-> [ topSpeedMultiplier |-> 920, accelerationMultiplier |-> 1000,
                      corneringMultiplier |-> 1150, maxSteerMultiplier |-> 1250 ] ]

PLAYER_INDICES == {0, 1}

----------------------------------------------------------------------------
(* Track provider and Bezier sampler (node coordinates in px) *)

Node(x, y, inX, inY, outX, outY) ==
  [ x |-> x, y |-> y, handleIn |-> [x |-> inX, y |-> inY],
    handleOut |-> [x |-> outX, y |-> outY] ]

\* getBezierNodes: the fallback "stadium" track
getBezierNodes ==
  << Node(500, 250, -50, 0, 50, 0),
     Node(650, 250, -50, 0, 50, 0),
     Node(800, 400, 0, -50, 0, 50),
     Node(650, 550, 50, 0, -50, 0),
     Node(350, 550, 50, 0, -50, 0),
     Node(200, 400, 0, 50, 0, -50),
     Node(350, 250, -50, 0, 50, 0) >>

\* Faulty variant: the samples are taken at t = (j + 1) / 60
BezierCoord_LateSample(p0, cp1, cp2, p3, j) ==
  LET mt == 59 - j
      t == j + 1
  IN Div(mt * mt * mt * p0 + 3 * mt * mt * t * cp1
         + 3 * mt * t * t * cp2 + t * t * t * p3, 2160)

\* One coordinate of getBezierPoint at t = j / 60, in 1/100 px
BezierCoord(p0, cp1, cp2, p3, j) ==
  LET mt == 60 - j
  IN Div(mt * mt * mt * p0 + 3 * mt * mt * j * cp1
         + 3 * mt * j * j * cp2 + j * j * j * p3, 2160)

getBezierPoint(p0, cp1, cp2, p3, j) ==
  [ x |-> BezierCoord(p0.x, cp1.x, cp2.x, p3.x, j),
    y |-> BezierCoord(p0.y, cp1.y, cp2.y, p3.y, j) ]

generateRacingLineFromNodes(nodes) ==
  LET n == Len(nodes)
      point(k) ==
        LET i == (k - 1) \div 60
            j == (k - 1) % 60
            curr == nodes[i + 1]
            next == nodes[((i + 1) % n) + 1]
            p0 == [x |-> curr.x, y |-> curr.y]
            p3 == [x |-> next.x, y |-> next.y]
            cp1 == [x |-> curr.x + curr.handleOut.x, y |-> curr.y + curr.handleOut.y]
            cp2 == [x |-> next.x + next.handleIn.x, y |-> next.y + next.handleIn.y]
        IN getBezierPoint(p0, cp1, cp2, p3, j)
  IN [k \in 1..(60 * n) |-> point(k)]

\* path[i] with the 0-based index of the source
At(path, i) == path[i + 1]

\* The paths of the node lists the model starts from, sampled once
SampledPaths ==
  [ k \in 1..Len(getBezierNodes) |->
      generateRacingLineFromNodes(SubSeq(getBezierNodes, 1, k)) ]

\* The number of nodes up to which the editor is followed
MaxNodes == 3

\* The node onMouseMove leaves when the dragged part follows the mouse to m
Dragged(node, type, m) ==
  CASE type = "anchor" -> [node EXCEPT !.x = m.x, !.y = m.y]
    [] type = "in" -> [node EXCEPT !.handleIn = [x |-> m.x - node.x, y |-> m.y - node.y]]
    [] type = "out" -> [node EXCEPT !.handleOut = [x |-> m.x - node.x, y |-> m.y - node.y]]

\* The mouse positions and keys of an edited race: the anchor of the first
\* stadium node, and a place to drag it to
RaceClicks == {[x |-> 500, y |-> 250]}
RaceMoves == {[x |-> 500, y |-> 240]}
RaceKeys == {"delete", "r"}

\* The node lists an edited race can hold: the leading stadium nodes or nodes
\* created after a reset, also with the first node dragged
CreatedNodeLists ==
  { [i \in 1..k |-> Node(m.x, m.y, -50, -50, 50, 50)] :
      k \in 1..MaxNodes, m \in RaceClicks }
StadiumNodeLists ==
  { SubSeq(getBezierNodes, 1, k) : k \in 1..Len(getBezierNodes) }
EditedNodeLists ==
  CreatedNodeLists
  \cup { [nodes EXCEPT ![1] = Dragged(@, "anchor", m)] :
           nodes \in CreatedNodeLists \cup StadiumNodeLists, m \in RaceMoves }

\* Their racing lines, sampled once
EditedPaths == [nodes \in EditedNodeLists |-> generateRacingLineFromNodes(nodes)]

\* session.racingPath for the node list it was generated from
PathPoints(nodes) ==
  IF nodes = <<>> THEN <<>>
  ELSE IF Len(nodes) <= Len(getBezierNodes)
          /\ nodes = SubSeq(getBezierNodes, 1, Len(nodes))
  THEN SampledPaths[Len(nodes)]
  ELSE IF nodes \in EditedNodeLists THEN EditedPaths[nodes]
  ELSE generateRacingLineFromNodes(nodes)

----------------------------------------------------------------------------
(* Racer entity *)

\* The k-th value Math.random() returns from generator state s
RECURSIVE Draw(_, _)
Draw(s, k) == IF k = 0 THEN s ELSE Draw(NextRandom(s), k - 1)

\* new Racer(config); rng is the generator state before the constructor runs.
\* The constructor draws, in order: the three strategy params (when none are
\* given), launchDelay, launchAccel, laneOffset, wobblePhase, bikeType.
Racer(id, position, angle, isPlayer, params, rng) ==
  LET given == params # <<>>
      base == IF given THEN 0 ELSE 3
      d(k) == Draw(rng, base + k)
  IN [ id |-> id,
       x |-> position.x,
       y |-> position.y,
       angle |-> angle,
       fuel |-> 1000000,
       tires |-> 1000000,
       currentSpeed |-> 0,
       pathIndex |-> 0,
       lap |-> 0,
       progress |-> 0,
       finished |-> FALSE,
       finishTime |-> 0,
       state |-> "waiting",
       params |-> IF given THEN params
                  ELSE [ tireAggression |-> 40 + Div(Draw(rng, 1) * 40, 1000),
                         engineMap |-> 40 + Div(Draw(rng, 2) * 40, 1000),
                         risk |-> 30 + Div(Draw(rng, 3) * 40, 1000) ],
       launchDelay |-> Div(d(1) * 15, 1000),
       launchAccel |-> 500 + Div(d(2) * 200, 1000),
       laneOffset |-> Div(d(3) * 4000, 1000) - 2000,
       wobblePhase |-> Div(d(4) * 628, 1000),
       isPlayer |-> isPlayer,
       bikeType |-> BIKE_ARCHETYPE_KEYS[Div(d(5) * 3, 1000) + 1] ]

\* Number of Math.random() calls of one constructor run
RacerDraws(params) == IF params # <<>> THEN 5 ELSE 8

getBikeArchetype(racer) == BIKE_ARCHETYPES[racer.bikeType]

----------------------------------------------------------------------------
(* PhysicsEngine *)

\* calculateSpeedMultiplier(racer); rnd is the value Math.random() returns
calculateSpeedMultiplier(racer, rnd) ==
  LET C == GAME_CONFIG
  IN IF racer.finished THEN C.finishedSpeedMultiplier
     ELSE LET engine == IF racer.fuel > 0
                        THEN C.speedBaseMultiplier
                             + Div(C.speedEngineBonus * racer.params.engineMap, 100)
                        ELSE C.speedNoFuelPenalty
              tire == IF racer.tires < C.speedLowTireThreshold
                      THEN C.speedLowTireBase
                           + Div(C.speedLowTireMultiplier * racer.tires,
                                 C.speedLowTireThreshold)
                      ELSE 1000
              jitter == 1000 + Div(rnd * C.speedRandomVariation, 1000)
                        - C.speedRandomVariation \div 2
          IN Div(Div(engine * tire, 1000) * jitter, 1000)

\* Faulty variant: the drain is added instead of subtracted
DrainResources_Regenerate(racer) ==
  LET C == GAME_CONFIG
      fDrain == C.fuelDrainBase
                + Div(C.fuelDrainEngineMultiplier * racer.params.engineMap, 100)
      tWear == C.tireDrainBase
               + Div(C.tireDrainTireMultiplier * racer.params.tireAggression, 100)
  IN IF racer.finished THEN racer
     ELSE [racer EXCEPT
             !.fuel = Max(0, racer.fuel + Div(racer.currentSpeed * fDrain, 100000)),
             !.tires = Max(0, racer.tires + Div(racer.currentSpeed * tWear, 100000))]

\* Faulty variant: the drain is not skipped for a finished racer
DrainResources_IgnoreFinished(racer) ==
  LET C == GAME_CONFIG
      fDrain == C.fuelDrainBase
                + Div(C.fuelDrainEngineMultiplier * racer.params.engineMap, 100)
      tWear == C.tireDrainBase
               + Div(C.tireDrainTireMultiplier * racer.params.tireAggression, 100)
  IN [racer EXCEPT
        !.fuel = Max(0, racer.fuel - Div(racer.currentSpeed * fDrain, 100000)),
        !.tires = Max(0, racer.tires - Div(racer.currentSpeed * tWear, 100000))]

\* Fuel and tire drain of one tick (skipped once finished)
DrainResources(racer) ==
  LET C == GAME_CONFIG
      fDrain == C.fuelDrainBase
                + Div(C.fuelDrainEngineMultiplier * racer.params.engineMap, 100)
      tWear == C.tireDrainBase
               + Div(C.tireDrainTireMultiplier * racer.params.tireAggression, 100)
  IN IF racer.finished THEN racer
     ELSE [racer EXCEPT
             !.fuel = Max(0, racer.fuel - Div(racer.currentSpeed * fDrain, 100000)),
             !.tires = Max(0, racer.tires - Div(racer.currentSpeed * tWear, 100000))]

\* Acceleration / deceleration toward maxSpeed
Accelerate(racer, maxSpeed) ==
  LET C == GAME_CONFIG
      accelMult == getBikeArchetype(racer).accelerationMultiplier
      launchAccel == Div(racer.launchAccel * accelMult, 1000)
      normalAccel == Div(C.normalAcceleration * accelMult, 1000)
  IN IF racer.currentSpeed < maxSpeed
     THEN IF racer.currentSpeed < 5000 /\ ~racer.finished
          THEN racer.currentSpeed + launchAccel
          ELSE racer.currentSpeed + normalAccel
     ELSE Max(racer.currentSpeed - C.deceleration, maxSpeed)

\* while (a <= -PI) a += 2 PI; while (a > PI) a -= 2 PI
RECURSIVE NormalizeAngle(_)
NormalizeAngle(a) ==
  IF a <= -314 THEN NormalizeAngle(a + 628)
  ELSE IF a > 314 THEN NormalizeAngle(a - 628)
  ELSE a

\* The steering target: the look-ahead point moved sideways by the lane offset
SteeringTarget(racer, path, frameCount) ==
  LET C == GAME_CONFIG
      n == Len(path)
      targetIdx == (racer.pathIndex + C.lookAheadDistance) % n
      centerPt == At(path, targetIdx)
      nextPt == At(path, (targetIdx + 5) % n)
      prevPt == At(path, (targetIdx - 5 + n) % n)
      tx0 == nextPt.x - prevPt.x
      ty0 == nextPt.y - prevPt.y
      tLen == Hypot(tx0, ty0)
      tx == IF tLen > 0 THEN Div(tx0 * 1000, tLen) ELSE tx0
      ty == IF tLen > 0 THEN Div(ty0 * 1000, tLen) ELSE ty0
      px == -ty
      py == tx
      wobble == Div(Sin(frameCount * C.wobbleFrequency + racer.wobblePhase)
                    * C.wobbleAmplitude, 1000)
      off == racer.laneOffset + wobble
  IN [ idx |-> targetIdx,
       x |-> centerPt.x + Div(px * off, 1000),
       y |-> centerPt.y + Div(py * off, 1000) ]

\* The angular error the steering works on (emergency override and damping)
SteeringError(racer, path, target) ==
  LET C == GAME_CONFIG
      n == Len(path)
      targetAngle == Atan2(target.y - racer.y, target.x - racer.x)
      angDiff == NormalizeAngle(targetAngle - racer.angle)
      safe == At(path, (target.idx + 20) % n)
      safeA == Atan2(safe.y - racer.y, safe.x - racer.x)
      emergency == IF Abs(angDiff) > C.emergencyTurnThreshold
                   THEN NormalizeAngle(safeA - racer.angle)
                   ELSE angDiff
      damped == IF Abs(emergency) > 157
                THEN Div(emergency * C.sharpTurnDamping, 1000)
                ELSE emergency
  IN [ angDiff |-> angDiff, final |-> damped ]

\* Cornering speed penalty / bonus of the archetype
CorneringSpeed(racer, angDiff, maxSpeed) ==
  LET cornerMult == getBikeArchetype(racer).corneringMultiplier
      corneringSpeed == Div(racer.currentSpeed * cornerMult, 1000)
  IN IF Abs(angDiff) > 15 /\ ~racer.finished
     THEN IF cornerMult < 1000
          THEN Max(corneringSpeed, Div(racer.currentSpeed * 980, 1000))
          ELSE IF cornerMult > 1000
          THEN Min(maxSpeed, Div(racer.currentSpeed * 1010, 1000))
          ELSE racer.currentSpeed
     ELSE racer.currentSpeed

\* Faulty variant: the steering is not limited to maxSteer
ClampSteer_Unclamped(racer, angDiff) == angDiff

\* Math.max(Math.min(angDiff, maxSteer), -maxSteer)
ClampSteer(racer, angDiff) ==
  LET maxSteer == Div(GAME_CONFIG.maxSteerAngle
                      * getBikeArchetype(racer).maxSteerMultiplier, 1000)
  IN Max(Min(angDiff, maxSteer), -maxSteer)

\* (Math.random() - 0.5) * steeringRandomNoise
SteeringNoise(rnd) == Round((rnd - 500) * GAME_CONFIG.steeringRandomNoise, 1000)

\* The lap-completion test of the path scan: the racer is near the end of the
\* path and the candidate near its start
InWrapZone(pathIndex, cIdx, n) ==
  /\ pathIndex * 1000 > n * GAME_CONFIG.lapWrapThreshold
  /\ cIdx * 1000 < n * (1000 - GAME_CONFIG.lapWrapThreshold)

\* Faulty variant: the progress of a finisher is taken from the clock
CountLap_ClockProgress(racer, laps, time) ==
  IF racer.finished THEN racer
  ELSE IF racer.lap + 1 >= laps
       THEN [racer EXCEPT !.lap = racer.lap + 1,
                          !.finished = TRUE,
                          !.finishTime = time,
                          !.progress = (laps + 1000) * 1000000 + time]
       ELSE [racer EXCEPT !.lap = racer.lap + 1]

\* Faulty variant: the finish test is off by one lap
CountLap_EarlyFinish(racer, laps, time) ==
  IF racer.finished THEN racer
  ELSE IF racer.lap + 1 >= laps - 1
       THEN [racer EXCEPT !.lap = racer.lap + 1,
                          !.finished = TRUE,
                          !.finishTime = time,
                          !.progress = (laps + 1000) * 1000000]
       ELSE [racer EXCEPT !.lap = racer.lap + 1]

\* lap++ and finish detection (only if not finished)
CountLap(racer, laps, time) ==
  IF racer.finished THEN racer
  ELSE IF racer.lap + 1 >= laps
       THEN [racer EXCEPT !.lap = racer.lap + 1,
                          !.finished = TRUE,
                          !.finishTime = time,
                          !.progress = (laps + 1000) * 1000000]
       ELSE [racer EXCEPT !.lap = racer.lap + 1]

\* cIdx of iteration i of the path scan
CandidateIndex(racer, path, i) == (racer.pathIndex + i) % Len(path)

\* dist < pathCheckDistance for the candidate of iteration i
CandidateNear(racer, path, i) ==
  LET pt == At(path, CandidateIndex(racer, path, i))
  IN HypotLess(pt.x - racer.x, pt.y - racer.y, GAME_CONFIG.pathCheckDistance)

\* Faulty variant: the comparison with lapWrapMinDistance is reversed
WrapCandidateRejected_TooClose(racer, path, i) ==
  LET pt == At(path, CandidateIndex(racer, path, i))
  IN HypotLess(pt.x - racer.x, pt.y - racer.y, GAME_CONFIG.lapWrapMinDistance)

\* "if (dist > lapWrapMinDistance) continue" for the candidate of iteration i
WrapCandidateRejected(racer, path, i) ==
  LET pt == At(path, CandidateIndex(racer, path, i))
  IN HypotGreater(pt.x - racer.x, pt.y - racer.y, GAME_CONFIG.lapWrapMinDistance)

\* Faulty variant: no candidate is ever taken as a lap completion
LapCompletion_Never(racer, path, i) == FALSE

\* The candidate of iteration i is taken as a lap completion
LapCompletion(racer, path, i) ==
  /\ CandidateNear(racer, path, i)
  /\ InWrapZone(racer.pathIndex, CandidateIndex(racer, path, i), Len(path))
  /\ ~WrapCandidateRejected(racer, path, i)

\* Iteration i reaches "racer.pathIndex = cIdx; break"
CandidateAdopted(racer, path, i) ==
  /\ CandidateNear(racer, path, i)
  /\ \/ ~InWrapZone(racer.pathIndex, CandidateIndex(racer, path, i), Len(path))
     \/ ~WrapCandidateRejected(racer, path, i)

\* Faulty variant: the index is stored without the modulo
AdoptIndex_NoWrap(racer, path, i) ==
  [racer EXCEPT !.pathIndex = racer.pathIndex + i]

\* racer.pathIndex = cIdx
AdoptIndex(racer, path, i) ==
  [racer EXCEPT !.pathIndex = CandidateIndex(racer, path, i)]

\* The iterations of the scan that would adopt their candidate
AdoptingIterations(racer, path) ==
  {i \in 1..GAME_CONFIG.pathCheckSkip : CandidateAdopted(racer, path, i)}

\* for (i = 1; i <= skip; i++) { ... } of updateRacer: the first iteration that
\* adopts its candidate ends the loop
ScanPath(racer, path, laps, time) ==
  LET hits == AdoptingIterations(racer, path)
  IN IF hits = {} THEN racer
     ELSE LET i == CHOOSE h \in hits : \A k \in hits : h <= k
              counted == IF LapCompletion(racer, path, i)
                         THEN CountLap(racer, laps, time)
                         ELSE racer
          IN AdoptIndex(counted, path, i)

\* Faulty variant: progress is recomputed for a finished racer too
UpdateProgress_Unguarded(racer, path) ==
  [racer EXCEPT !.progress = racer.lap * 1000000
                             + Div(racer.pathIndex * 1000000, Len(path))]

\* progress = lap + pathIndex / path.length (if not finished)
UpdateProgress(racer, path) ==
  IF racer.finished THEN racer
  ELSE [racer EXCEPT !.progress = racer.lap * 1000000
                                  + Div(racer.pathIndex * 1000000, Len(path))]

\* The start gating of updateRacer
BeforeStart(frameCount) == frameCount < GAME_CONFIG.startDelayFrames

\* Faulty variant: the individual launch delay is ignored
BeforeLaunch_Never(racer, frameCount) == FALSE

\* if (frameCount < startDelayFrames + racer.launchDelay) return
BeforeLaunch(racer, frameCount) ==
  frameCount < GAME_CONFIG.startDelayFrames + racer.launchDelay

\* Path index scan, lap counting and progress; rng is the generator state
\* the call leaves behind
FollowPath(racer, path, laps, rng, time) ==
  [ racer |-> UpdateProgress(ScanPath(racer, path, laps, time), path),
    rng |-> rng ]

\* racer.x += cos(angle) * currentSpeed; racer.y += sin(angle) * currentSpeed
ApplyVelocity(racer, path, laps, rng, time) ==
  FollowPath([racer EXCEPT
                !.x = @ + Div(Cos(racer.angle) * racer.currentSpeed, 100000),
                !.y = @ + Div(Sin(racer.angle) * racer.currentSpeed, 100000)],
             path, laps, rng, time)

\* Cornering speed and the clamped steering with its random noise; err is the
\* angular error, rng the generator state after the draw of the noise
ApplySteering(racer, err, maxSpeed, path, laps, rng, time) ==
  ApplyVelocity([racer EXCEPT
                   !.currentSpeed = CorneringSpeed(racer, err.angDiff, maxSpeed),
                   !.angle = @ + ClampSteer(racer, err.final) + SteeringNoise(rng)],
                path, laps, rng, time)

\* Acceleration toward maxSpeed, then path following and steering
ApplyThrottle(racer, maxSpeed, path, frameCount, laps, rng, time) ==
  ApplySteering([racer EXCEPT !.currentSpeed = Accelerate(racer, maxSpeed)],
                SteeringError(racer, path, SteeringTarget(racer, path, frameCount)),
                maxSpeed, path, laps, NextRandom(rng), time)

\* maxSpeed = velocity * speedMult * topSpeedMult; rnd is the value
\* Math.random() returns in calculateSpeedMultiplier
MaxSpeed(racer, rnd) ==
  Div(Div(GAME_CONFIG.velocity * calculateSpeedMultiplier(racer, rnd), 1000)
      * getBikeArchetype(racer).topSpeedMultiplier, 1000)

\* The drained racer, with the generator state after calculateSpeedMultiplier
\* (which draws only for a racer that is not finished)
AfterDrain(racer, path, frameCount, laps, rng, time) ==
  ApplyThrottle(racer, MaxSpeed(racer, rng), path, frameCount, laps, rng, time)

\* updateRacer past the start gating; rng is the generator state
MoveRacer(racer, path, frameCount, laps, rng, time) ==
  AfterDrain(DrainResources(racer), path, frameCount, laps,
             IF racer.finished THEN rng ELSE NextRandom(rng), time)

\* PhysicsEngine.updateRacer(racer, racingPath, frameCount, totalLaps)
updateRacer(racer, path, frameCount, laps, rng, time) ==
  IF BeforeStart(frameCount)
  THEN [ racer |-> [racer EXCEPT !.currentSpeed = 0], rng |-> rng ]
  ELSE IF BeforeLaunch(racer, frameCount)
  THEN [ racer |-> racer, rng |-> rng ]
  ELSE MoveRacer(racer, path, frameCount, laps, rng, time)

\* Required separation of two racers
MinDist(r1, r2) ==
  LET buffer == Div(GAME_CONFIG.riskBufferScale
                    * (200 - (r1.params.risk + r2.params.risk)), 200)
  IN GAME_CONFIG.racerRadius * 2 + buffer

\* The displacement along one axis: n * overlap * f, n = d / safe
Push(d, safe, overlap) ==
  Div(Div(d * 1000, safe) * overlap * GAME_CONFIG.collisionForce, 1000000)

\* Faulty variant: only the first racer of the pair is pushed
ResolvePair_OneSided(rs, i, j) ==
  LET r1 == rs[i]
      r2 == rs[j]
      dx == r2.x - r1.x
      dy == r2.y - r1.y
      minDist == MinDist(r1, r2)
  IN IF HypotLess(dx, dy, minDist)
     THEN LET dist == Hypot(dx, dy)
              safe == IF dist = 0 THEN 1 ELSE dist
              overlap == minDist - safe
          IN [rs EXCEPT ![i].x = r1.x - Push(dx, safe, overlap),
                        ![i].y = r1.y - Push(dy, safe, overlap)]
     ELSE rs

\* Faulty variant: the push also takes speed from the first racer of the pair
ResolvePair_ExchangeSpeed(rs, i, j) ==
  LET r1 == rs[i]
      r2 == rs[j]
      dx == r2.x - r1.x
      dy == r2.y - r1.y
      minDist == MinDist(r1, r2)
  IN IF HypotLess(dx, dy, minDist)
     THEN LET dist == Hypot(dx, dy)
              safe == IF dist = 0 THEN 1 ELSE dist
              overlap == minDist - safe
          IN [rs EXCEPT ![i].x = r1.x - Push(dx, safe, overlap),
                        ![i].y = r1.y - Push(dy, safe, overlap),
                        ![i].currentSpeed = r1.currentSpeed \div 2,
                        ![j].x = r2.x + Push(dx, safe, overlap),
                        ![j].y = r2.y + Push(dy, safe, overlap)]
     ELSE rs

\* The body of the pair loop of resolveCollisions for racers[i], racers[j]
ResolvePair(rs, i, j) ==
  LET r1 == rs[i]
      r2 == rs[j]
      dx == r2.x - r1.x
      dy == r2.y - r1.y
      minDist == MinDist(r1, r2)
  IN IF HypotLess(dx, dy, minDist)
     THEN LET dist == Hypot(dx, dy)
              safe == IF dist = 0 THEN 1 ELSE dist
              overlap == minDist - safe
          IN [rs EXCEPT ![i].x = r1.x - Push(dx, safe, overlap),
                        ![i].y = r1.y - Push(dy, safe, overlap),
                        ![j].x = r2.x + Push(dx, safe, overlap),
                        ![j].y = r2.y + Push(dy, safe, overlap)]
     ELSE rs

\* for (i ...) for (j = i + 1 ...) of resolveCollisions, from pair (i, j) on
RECURSIVE ResolveFrom(_, _, _)
ResolveFrom(rs, i, j) ==
  IF i > Len(rs) THEN rs
  ELSE IF j > Len(rs) THEN ResolveFrom(rs, i + 1, i + 2)
  ELSE ResolveFrom(ResolvePair(rs, i, j), i, j + 1)

\* PhysicsEngine.resolveCollisions(racers)
resolveCollisions(rs) == ResolveFrom(rs, 1, 2)

----------------------------------------------------------------------------
(* Race session *)

\* The start grid of RaceSession.init (no start line: heading from the path)
GridPose(path) ==
  LET startPoint == At(path, 0)
      lookaheadPoint == At(path, Min(30, Len(path) - 1))
      dx == lookaheadPoint.x - startPoint.x
      dy == lookaheadPoint.y - startPoint.y
      len == Hypot(dx, dy)
  IN [ startPoint |-> startPoint,
       angle |-> Atan2(dy, dx),
       dirX |-> Div(dx * 1000, len),
       dirY |-> Div(dy * 1000, len) ]

\* Grid slot of racer i (0-based): rows of 3 behind the start point
GridPosition(pose, i) ==
  LET row == i \div 3
      col == i % 3
      distBack == 6000 + row * 3500
      distSide == IF row = 3 THEN col * 2500 - 1250 ELSE (col - 1) * 2500
      perpX == -pose.dirY
      perpY == pose.dirX
  IN [ x |-> pose.startPoint.x - Div(pose.dirX * distBack, 1000)
             + Div(perpX * distSide, 1000),
       y |-> pose.startPoint.y - Div(pose.dirY * distBack, 1000)
             + Div(perpY * distSide, 1000) ]

PlayerParams == [tireAggression |-> 60, engineMap |-> 60, risk |-> 60]

ParamsOf(i) == IF i \in PLAYER_INDICES THEN PlayerParams ELSE <<>>

\* Generator state before racer i (0-based) is constructed
RECURSIVE RngBefore(_, _)
RngBefore(seed, i) ==
  IF i = 0 THEN seed
  ELSE Draw(RngBefore(seed, i - 1), RacerDraws(ParamsOf(i - 1)))

\* The racers the loop of RaceSession.init creates
CreateRacers(path, placement, seed) ==
  LET pose == GridPose(path)
  IN [ k \in 1..NumRacers |->
         Racer(k - 1,
               GridPosition(pose, IF placement = "grid" THEN k - 1 ELSE 0),
               pose.angle,
               (k - 1) \in PLAYER_INDICES,
               ParamsOf(k - 1),
               RngBefore(seed, k - 1)) ]

\* A HeadlessRaceSimulator that has not been constructed
NoSimulator ==
  [ racers |-> <<>>, frameCount |-> 0, raceFinished |-> FALSE,
    finishOrder |-> <<>>, totalLaps |-> 3, maxFrames |-> 0 ]

----------------------------------------------------------------------------
(* Times of the game loop are JavaScript numbers (IEEE 754 binary64). A      *)
(* time t, 0 <= t < 128 ms, is the natural number t * 2^49, written with two *)
(* digits of base 2^28; every binary64 value from 2^-49 to 128 that is a     *)
(* multiple of 2^-49 is such a number, and the results of +, -, * and / are  *)
(* rounded to the 53 significant bits of binary64, ties to even.             *)

Limb == 268435456

Double(hi, lo) == [hi |-> hi + (lo \div Limb), lo |-> lo % Limb]

\* n milliseconds, n an integer below 128
Ms(n) == Double(n * 2097152, 0)

DLess(a, b) == a.hi < b.hi \/ (a.hi = b.hi /\ a.lo < b.lo)

\* Spacing of the binary64 values around a, in units of 2^-49
Ulp(a) == IF a.hi < 33554432 THEN 1
          ELSE IF a.hi < 67108864 THEN 2
          ELSE IF a.hi < 134217728 THEN 4
          ELSE 8

\* The binary64 value nearest to a + rest, where 0 <= rest < 1 unit is given
\* as the fraction num / den; ties go to the even significand
RoundToDouble(a, num, den) ==
  LET q == Ulp(a)
      r == a.lo % q
      down == Double(a.hi, a.lo - r)
      up == Double(a.hi, a.lo - r + q)
      twice == 2 * (r * den + num)
  IN IF twice < q * den THEN down
     ELSE IF twice > q * den THEN up
     ELSE IF ((a.lo - r) \div q) % 2 = 0 THEN down ELSE up

\* a + b
DAdd(a, b) == RoundToDouble(Double(a.hi + b.hi, a.lo + b.lo), 0, 1)

\* a - b, for a >= b
DSub(a, b) == RoundToDouble(Double(a.hi - b.hi - 1, a.lo + Limb - b.lo), 0, 1)

\* The product a * k in exact arithmetic, k a small integer
Times(a, k) == Double(a.hi * k, a.lo * k)

\* a * k
DMul(a, k) == RoundToDouble(Times(a, k), 0, 1)

\* n / d for integers n < 1024 and d < 1024: long division with 14-bit digits
DDiv(n, d) ==
  LET top == n * 2097152
      r0 == top % d
      q1 == (r0 * 16384) \div d
      r1 == (r0 * 16384) % d
      q2 == (r1 * 16384) \div d
      r2 == (r1 * 16384) % d
  IN RoundToDouble(Double(top \div d, q1 * 16384 + q2), r2, d)

Zero == Ms(0)

\* this.fixedTimestep = 1000 / GAME_CONFIG.fps
fixedTimestep == DDiv(1000, GAME_CONFIG.fps)

\* new GameManager(): no animation frame requested, no session; "requests"
\* are the callbacks requestAnimationFrame holds, each with the session whose
\* init requested the first frame of its chain, "pending" the sessions whose
\* init has not resolved, "calls" counts the changeMode calls, "globalParams"
\* are the strategies GameState holds for the player racers
NewManager ==
  [ animationFrameId |-> 0, requests |-> {}, session |-> 0, pending |-> {},
    currentTrack |-> "s-curve", calls |-> 0,
    globalParams |-> [id \in PLAYER_INDICES |->
                       [tireAggression |-> 60, engineMap |-> 60, risk |-> 60]] ]

\* new TrackEditor(session): not enabled, not creating, nothing dragged
NoDragTarget == <<>>
EditorOff ==
  [enabled |-> FALSE, creationMode |-> FALSE, dragTarget |-> NoDragTarget]

\* The game loop before its first frame; "entered" records the accumulator
\* with which the current gameLoop call reached its while loop, "ticks" counts
\* the session updates of that call, "phase" is the position in gameLoop,
\* "called" is the timestamp of the latest gameLoop call and "pausedCalls"
\* counts the calls that found the game paused
LoopAtRest ==
  [ accumulator |-> Zero, lastTimestamp |-> Zero, isPaused |-> FALSE,
    entered |-> Zero, ticks |-> 0, phase |-> "rest",
    called |-> Zero, pausedCalls |-> 0 ]

Init ==
  /\ bezierNodes \in {SubSeq(getBezierNodes, 1, k) : k \in TrackSizes}
  /\ racingPath = bezierNodes
  /\ totalLaps \in 1..MaxLaps
  /\ \E seed \in 0..MaxSeed, placement \in Placements :
       /\ racers = CreateRacers(PathPoints(racingPath), placement, seed)
       /\ rngState = RngBefore(seed, NumRacers)
  /\ raceFrameCount = 0
  /\ raceFinished = FALSE
  /\ pc = "idle"
  /\ idx = 1
  /\ now = 0
  /\ headless = NoSimulator
  /\ loop = LoopAtRest
  /\ trackType = "stadium"
  /\ trackEditor = EditorOff
  /\ manager = NewManager

\* Faulty variant: the frame counter advances by two
BeginTick_CountTwice ==
  /\ pc = "idle"
  /\ raceFrameCount < MaxFrames
  /\ raceFrameCount' = raceFrameCount + 2
  /\ now' = now + 17
  /\ pc' = "update"
  /\ idx' = 1
  /\ UNCHANGED <<bezierNodes, racingPath, racers, totalLaps, raceFinished, rngState,
                 headless, loop, trackType, trackEditor, manager>>

\* RaceSession.update: this.raceFrameCount++
BeginTick ==
  /\ pc = "idle"
  /\ raceFrameCount < MaxFrames
  /\ raceFrameCount' = raceFrameCount + 1
  /\ now' = now + 17
  /\ pc' = "update"
  /\ idx' = 1
  /\ UNCHANGED <<bezierNodes, racingPath, racers, totalLaps, raceFinished, rngState,
                 headless, loop, trackType, trackEditor, manager>>

\* updateRacer gets past its start gating with an empty racingPath: targetIdx is
\* NaN, path[NaN] is undefined and "nextPt.x" throws a TypeError
ReadsEmptyPath(racer, nodes, frameCount) ==
  /\ nodes = <<>>
  /\ ~BeforeStart(frameCount)
  /\ ~BeforeLaunch(racer, frameCount)

\* The racer and generator state updateRacer leaves behind when it throws: the
\* drain and the acceleration are done, the steering and the movement are not
ThrownUpdate(racer, rng) ==
  LET drained == DrainResources(racer)
      drawn == IF racer.finished THEN rng ELSE NextRandom(rng)
  IN [ racer |-> [drained EXCEPT
                    !.currentSpeed = Accelerate(drained, MaxSpeed(drained, drawn))],
       rng |-> drawn ]

\* The iteration of racers.forEach in which updateRacer throws: the exception
\* leaves RaceSession.update and gameLoop, which does not reschedule itself
UpdateRacerThrows ==
  /\ pc = "update"
  /\ ReadsEmptyPath(racers[idx], racingPath, raceFrameCount)
  /\ racers' = [racers EXCEPT ![idx] = ThrownUpdate(racers[idx], rngState).racer]
  /\ rngState' = ThrownUpdate(racers[idx], rngState).rng
  /\ pc' = "thrown"
  /\ UNCHANGED <<bezierNodes, racingPath, totalLaps, raceFrameCount, raceFinished,
                 idx, now, headless, loop, trackType, trackEditor, manager>>

\* One iteration of this.racers.forEach(racer => physics.updateRacer(...))
UpdateRacer ==
  /\ pc = "update"
  /\ ~ReadsEmptyPath(racers[idx], racingPath, raceFrameCount)
  /\ LET res == updateRacer(racers[idx], PathPoints(racingPath), raceFrameCount, totalLaps,
                            rngState, now)
     IN /\ racers' = [racers EXCEPT ![idx] = res.racer]
        /\ rngState' = res.rng
  /\ idx' = idx + 1
  /\ pc' = IF idx = Len(racers) THEN "collide" ELSE "update"
  /\ UNCHANGED <<bezierNodes, racingPath, totalLaps, raceFrameCount, raceFinished, now,
                 headless, loop, trackType, trackEditor, manager>>

\* this.physics.resolveCollisions(this.racers)
ResolveCollisions ==
  /\ pc = "collide"
  /\ racers' = resolveCollisions(racers)
  /\ pc' = "check"
  /\ UNCHANGED <<bezierNodes, racingPath, totalLaps, raceFrameCount, raceFinished,
                 idx, rngState, now, headless, loop, trackType, trackEditor, manager>>

\* Faulty variant: the race is declared finished with the first finisher
CheckFinishState_FirstFinisher ==
  /\ pc = "check"
  /\ raceFinished' = (raceFinished \/ \E k \in 1..Len(racers) : racers[k].finished)
  /\ pc' = "idle"
  /\ UNCHANGED <<bezierNodes, racingPath, racers, totalLaps, raceFrameCount,
                 idx, rngState, now, headless, loop, trackType, trackEditor, manager>>

\* RaceSession.checkFinishState
CheckFinishState ==
  /\ pc = "check"
  /\ raceFinished' = (raceFinished \/ \A k \in 1..Len(racers) : racers[k].finished)
  /\ pc' = "idle"
  /\ UNCHANGED <<bezierNodes, racingPath, racers, totalLaps, raceFrameCount,
                 idx, rngState, now, headless, loop, trackType, trackEditor, manager>>

Next ==
  \/ BeginTick
  \/ UpdateRacer
  \/ ResolveCollisions
  \/ CheckFinishState

Spec == Init /\ [][Next]_vars

----------------------------------------------------------------------------
(* Long races: a session observed late, with the racers' resources and      *)
(* speed as many laps of racing leave them                                  *)

FuelLevels == {0, 40, 1000000}

TireLevels == {30, 150000, 1000000}

SpeedLevels == {0, 24000}

StrategyLevels == {0, 100}

InitLate ==
  /\ bezierNodes = getBezierNodes
  /\ racingPath = bezierNodes
  /\ totalLaps \in 1..MaxLaps
  /\ \E seed \in 0..MaxSeed, fuel \in FuelLevels, tires \in TireLevels,
        speed \in SpeedLevels, strategy \in StrategyLevels :
       /\ racers = [ k \in 1..NumRacers |->
                       [ CreateRacers(PathPoints(racingPath), "grid", seed)[k]
                           EXCEPT !.fuel = fuel, !.tires = tires,
                                  !.currentSpeed = speed,
                                  !.params.engineMap = strategy,
                                  !.params.tireAggression = strategy ] ]
       /\ rngState = RngBefore(seed, NumRacers)
  /\ raceFrameCount = MaxFrames - MaxLateTicks
  /\ raceFinished = FALSE
  /\ pc = "idle"
  /\ idx = 1
  /\ now = 17 * raceFrameCount
  /\ headless = NoSimulator
  /\ loop = LoopAtRest
  /\ trackType = "stadium"
  /\ trackEditor = EditorOff
  /\ manager = NewManager

SpecLongRace == (Init \/ InitLate) /\ [][Next]_vars

----------------------------------------------------------------------------
(* Properties *)

\* The sampled points of the session's racing path
Path == PathPoints(racingPath)

\* progress of a finished racer: totalLaps + 1000
Sentinel == (totalLaps + 1000) * 1000000

\* The racer the next step passes to updateRacer, and the same racer after it
Before == racers[idx]
After == racers'[idx]

\* The frame of the next updateRacer call is past the racer's start gating
PastGating(racer) ==
  raceFrameCount >= GAME_CONFIG.startDelayFrames + racer.launchDelay

\* Squared distance of a racer to path point i, when both offsets are below
\* 100 px (otherwise a value above every threshold)
DistSq(racer, i) ==
  LET dx == At(Path, i).x - racer.x
      dy == At(Path, i).y - racer.y
  IN IF Abs(dx) < 10000 /\ Abs(dy) < 10000 THEN dx * dx + dy * dy ELSE 200000000

\* C1 (as claimed): every updateRacer call on an unfinished racer in which
\* pathIndex wraps (new pathIndex < previous pathIndex) increases lap by
\* exactly 1, no call increases lap by more than 1, and lap does not change
\* in a call without a wrap.
C1_LapCountExact ==
  [][ (pc = "update" /\ ~Before.finished) =>
        /\ After.lap <= Before.lap + 1
        /\ (After.pathIndex < Before.pathIndex => After.lap = Before.lap + 1)
        /\ (After.pathIndex >= Before.pathIndex => After.lap = Before.lap) ]_vars

\* C2: in every state reached from freshly constructed racers, a finished
\* racer has completed at least totalLaps laps.
C2_NoEarlyFinish ==
  \A k \in 1..Len(racers) : racers[k].finished => racers[k].lap >= totalLaps

\* A racer that finished on the lap completion that brought lap to totalLaps
C2_Witness ==
  \E k \in 1..Len(racers) :
    /\ racers[k].finished
    /\ racers[k].lap = totalLaps
    /\ racers[k].finishTime > 0

\* C3: once a racer is finished, every later updateRacer or resolveCollisions
\* call leaves it finished, leaves lap and finishTime unchanged, and leaves
\* progress at totalLaps + 1000; finishTime is assigned only in the call that
\* finishes the racer.
C3_FinishedFrozen ==
  [][ \A k \in 1..Len(racers) :
        /\ racers[k].finished =>
             /\ racers'[k].finished
             /\ racers'[k].lap = racers[k].lap
             /\ racers'[k].finishTime = racers[k].finishTime
             /\ racers[k].progress = Sentinel
             /\ racers'[k].progress = Sentinel
        /\ racers'[k].finishTime # racers[k].finishTime =>
             ~racers[k].finished /\ racers'[k].finished ]_vars

\* A finished racer that updateRacer has been called on again after finishing
C3_Witness ==
  \E k \in 1..Len(racers) :
    /\ racers[k].finished
    /\ racers[k].finishTime + 17 * 5 < now
    /\ pc = "collide"

\* C4 (as claimed): a lap is counted for a candidate whose distance to the
\* racer exceeds lapWrapMinDistance.
C4_LapCountedBeyondMinDistance ==
  [][ (pc = "update" /\ After.lap = Before.lap + 1) =>
        DistSq(After, After.pathIndex) > 3000 * 3000 ]_vars

\* C4 (amended): an updateRacer call on an unfinished racer counts a lap
\* exactly when it adopts a candidate with pathIndex > 0.9 * length, candidate
\* index < 0.1 * length and distance at most lapWrapMinDistance; an adopted
\* candidate is always closer than pathCheckDistance, and a candidate of the
\* wrap zone farther than lapWrapMinDistance is never adopted.
C4_LapCompletionTest ==
  [][ pc = "update" =>
        LET n == Len(Path)
            adopted == After.pathIndex # Before.pathIndex
            zone == /\ Before.pathIndex * 10 > n * 9
                    /\ After.pathIndex * 10 < n
            d2 == DistSq(After, After.pathIndex)
        IN /\ adopted => d2 < 6000 * 6000
           /\ (adopted /\ zone) => d2 <= 3000 * 3000
           /\ ~Before.finished =>
                (After.lap = Before.lap + 1 <=> (adopted /\ zone))
           /\ After.lap \in {Before.lap, Before.lap + 1} ]_vars

\* A racer that has completed a lap and sits within lapWrapMinDistance of the
\* path point it adopted
C4_Witness ==
  \E k \in 1..Len(racers) :
    /\ racers[k].lap = 1
    /\ racers[k].pathIndex * 10 < Len(Path)
    /\ DistSq(racers[k], racers[k].pathIndex) <= 3000 * 3000
    /\ pc = "collide"

\* C5 (as claimed): progress of a racer that is not yet finished never
\* decreases in an updateRacer call.
C5_ProgressMonotone ==
  [][ (pc = "update" /\ ~Before.finished) =>
        After.progress >= Before.progress ]_vars

\* C6: 0 <= pathIndex < path.length for every racer in every state, and a call
\* moves pathIndex forward by 0..pathCheckSkip modulo path.length.
C6_PathIndexInRange ==
  /\ [](\A k \in 1..Len(racers) :
          racers[k].pathIndex >= 0 /\ racers[k].pathIndex < Len(Path))
  /\ [][ \A k \in 1..Len(racers) :
           \E i \in 0..GAME_CONFIG.pathCheckSkip :
             racers'[k].pathIndex = (racers[k].pathIndex + i) % Len(Path) ]_vars

\* A racer whose pathIndex has wrapped from the end of the path to its start
C6_Witness ==
  \E k \in 1..Len(racers) :
    /\ racers[k].lap >= 1
    /\ racers[k].pathIndex < 100

\* C7: fuel and tires stay within [0, 100] and never increase.
C7_ResourcesBounded ==
  /\ [](\A k \in 1..Len(racers) :
          /\ racers[k].fuel >= 0 /\ racers[k].fuel <= 1000000
          /\ racers[k].tires >= 0 /\ racers[k].tires <= 1000000)
  /\ [][ \A k \in 1..Len(racers) :
           /\ racers'[k].fuel <= racers[k].fuel
           /\ racers'[k].tires <= racers[k].tires ]_vars

\* A racer that is still moving with its tires worn down to the floor of 0
C7_Witness ==
  \E k \in 1..Len(racers) :
    /\ racers[k].tires = 0
    /\ racers[k].fuel = 0
    /\ racers[k].currentSpeed > 0
    /\ racers[k].pathIndex > 0

\* C8: an updateRacer call with frameCount < startDelayFrames + launchDelay
\* leaves x, y, angle, pathIndex, lap, progress, finished, fuel and tires
\* unchanged, and with frameCount < startDelayFrames it sets currentSpeed to 0.
C8_StartGating ==
  [][ (pc = "update" /\ ~PastGating(Before)) =>
        /\ After.x = Before.x
        /\ After.y = Before.y
        /\ After.angle = Before.angle
        /\ After.pathIndex = Before.pathIndex
        /\ After.lap = Before.lap
        /\ After.progress = Before.progress
        /\ After.finished = Before.finished
        /\ After.fuel = Before.fuel
        /\ After.tires = Before.tires
        /\ raceFrameCount < GAME_CONFIG.startDelayFrames =>
             After.currentSpeed = 0 ]_vars

\* A racer held by its own launch delay after the common start delay is over,
\* while another racer is already moving
C8_Witness ==
  /\ pc = "collide"
  /\ raceFrameCount >= GAME_CONFIG.startDelayFrames
  /\ \E k \in 1..Len(racers) :
       /\ ~PastGating(racers[k])
       /\ racers[k].currentSpeed = 0
  /\ \E k \in 1..Len(racers) : racers[k].currentSpeed > 0

\* C9: an updateRacer call on a finished racer leaves fuel and tires
\* unchanged, and the racer keeps moving: its speed stays positive, falls
\* while it is above velocity * finishedSpeedMultiplier * topSpeedMultiplier
\* and never falls below that speed.
C9_FinishedNoDrain ==
  [][ (pc = "update" /\ Before.finished) =>
        LET coast == Div(Div(GAME_CONFIG.velocity
                             * GAME_CONFIG.finishedSpeedMultiplier, 1000)
                         * getBikeArchetype(Before).topSpeedMultiplier, 1000)
        IN /\ After.fuel = Before.fuel
           /\ After.tires = Before.tires
           /\ After.currentSpeed > 0
           /\ <<After.x, After.y>> # <<Before.x, Before.y>>
           /\ Before.currentSpeed > coast => After.currentSpeed < Before.currentSpeed
           /\ After.currentSpeed >= Min(Before.currentSpeed, coast) ]_vars

\* A finished racer, several ticks after it finished, with fuel used up to
\* the finish
C9_Witness ==
  \E k \in 1..Len(racers) :
    /\ racers[k].finished
    /\ racers[k].finishTime + 17 * 5 < now
    /\ racers[k].fuel < 1000000
    /\ racers[k].currentSpeed > 0
    /\ pc = "check"

\* C10 (as claimed): two racers at exactly the same (x, y) are apart after
\* resolveCollisions.
C10_CoincidentSeparate ==
  [][ pc = "collide" =>
        \A i, j \in 1..Len(racers) :
          (i < j /\ racers[i].x = racers[j].x /\ racers[i].y = racers[j].y) =>
            (racers'[i].x # racers'[j].x \/ racers'[i].y # racers'[j].y) ]_vars

\* Sum of the x (resp. y) coordinates of the first k racers
RECURSIVE SumX(_, _)
SumX(rs, k) == IF k = 0 THEN 0 ELSE rs[k].x + SumX(rs, k - 1)

RECURSIVE SumY(_, _)
SumY(rs, k) == IF k = 0 THEN 0 ELSE rs[k].y + SumY(rs, k - 1)

\* Two racers are closer than their required separation
TooClose(r1, r2) == HypotLess(r2.x - r1.x, r2.y - r1.y, MinDist(r1, r2))

\* C11: whenever resolveCollisions displaces a pair of racers, the two
\* displacements are equal in magnitude and opposite in direction, so the sum
\* of the two positions is unchanged by resolving the pair (and the sum of all
\* positions is unchanged by a resolveCollisions call).
C11_CollisionSymmetry ==
  [][ pc = "collide" =>
        /\ \A i, j \in 1..Len(racers) :
             i < j =>
               LET rs == ResolvePair(racers, i, j)
               IN /\ rs[i].x - racers[i].x = -(rs[j].x - racers[j].x)
                  /\ rs[i].y - racers[i].y = -(rs[j].y - racers[j].y)
                  /\ rs[i].x + rs[j].x = racers[i].x + racers[j].x
                  /\ rs[i].y + rs[j].y = racers[i].y + racers[j].y
        /\ SumX(racers', Len(racers)) = SumX(racers, Len(racers))
        /\ SumY(racers', Len(racers)) = SumY(racers, Len(racers)) ]_vars

\* Two racers closer than their required separation, not coincident, that the
\* next step pushes apart
C11_Witness ==
  /\ pc = "collide"
  /\ TooClose(racers[1], racers[2])
  /\ resolveCollisions(racers)[1].x # racers[1].x
  /\ resolveCollisions(racers)[2].x # racers[2].x

\* Two racers at exactly the same point
Coincident(r1, r2) == r1.x = r2.x /\ r1.y = r2.y

\* The pair is closer than its required separation by at least 0.1 px, so the
\* push n * overlap * f of the pair is above the resolution of the positions
ClearlyTooClose(r1, r2) ==
  HypotLess(r2.x - r1.x, r2.y - r1.y, MinDist(r1, r2) - 10)

\* Required separation as a function of the two risk params
Separation(riskA, riskB) ==
  MinDist([params |-> [risk |-> riskA]], [params |-> [risk |-> riskB]])

\* C12 (as claimed): resolveCollisions displaces a pair if and only if its
\* distance is strictly less than 2*racerRadius + riskBufferScale *
\* (1 - (risk_a + risk_b)/200); a pair at or beyond that distance is left
\* unchanged, and a higher combined risk never enlarges the separation.
C12_DisplacedIffTooClose ==
  [][ pc = "collide" =>
        /\ \A i, j \in 1..Len(racers) :
             i < j =>
               /\ ClearlyTooClose(racers[i], racers[j]) =>
                    ResolvePair(racers, i, j) # racers
               /\ ~TooClose(racers[i], racers[j]) =>
                    ResolvePair(racers, i, j) = racers
        /\ (\A i, j \in 1..Len(racers) :
              i < j => ~TooClose(racers[i], racers[j])) => racers' = racers
        /\ \A a, b, c \in {0, 30, 60, 100} :
             a <= b => Separation(b, c) <= Separation(a, c) ]_vars

----------------------------------------------------------------------------
(* A pack of racers: a session observed late, when resolveCollisions is about *)
(* to run on racers that crowd on the first straight                          *)

\* Offsets (1/100 px) of the racers of the pack along the straight; racers with
\* params.risk = 60 have a required separation of 1720
CrowdOffsets == {-1720, 0, 1000}

InitCrowd ==
  /\ bezierNodes = getBezierNodes
  /\ racingPath = bezierNodes
  /\ totalLaps = MaxLaps
  /\ \E offsets \in [1..CrowdSize -> CrowdOffsets] :
       racers = [ k \in 1..CrowdSize |->
                    [ Racer(k - 1,
                            [x |-> 57500 + offsets[k], y |-> 25000],
                            0, k - 1 \in PLAYER_INDICES, PlayerParams,
                            Draw(0, 5 * (k - 1)))
                        EXCEPT !.pathIndex = 30, !.currentSpeed = 24000,
                               !.progress = 71428 ] ]
  /\ rngState = Draw(0, 5 * CrowdSize)
  /\ raceFrameCount = MaxFrames - MaxLateTicks
  /\ raceFinished = FALSE
  /\ pc = "collide"
  /\ idx = CrowdSize + 1
  /\ now = 17 * raceFrameCount
  /\ headless = NoSimulator
  /\ loop = LoopAtRest
  /\ trackType = "stadium"
  /\ trackEditor = EditorOff
  /\ manager = NewManager

SpecCrowd == (Init \/ InitCrowd) /\ [][Next]_vars

\* The fields of a racer that are not its position
NonPosition(racer) ==
  [ currentSpeed |-> racer.currentSpeed, angle |-> racer.angle,
    pathIndex |-> racer.pathIndex, lap |-> racer.lap,
    progress |-> racer.progress, finished |-> racer.finished,
    finishTime |-> racer.finishTime, fuel |-> racer.fuel,
    tires |-> racer.tires, params |-> racer.params ]

\* Racer k is not closer than the required separation to any other racer
Apart(rs, k) == \A m \in 1..Len(rs) : m # k => ~TooClose(rs[k], rs[m])

\* C13 (as claimed): resolveCollisions changes only x and y, and a racer that
\* is not closer than the required separation to any other racer keeps its
\* position.
C13_OnlyCloseRacersMove ==
  [][ pc = "collide" =>
        \A k \in 1..Len(racers) :
          /\ NonPosition(racers'[k]) = NonPosition(racers[k])
          /\ Apart(racers, k) =>
               (racers'[k].x = racers[k].x /\ racers'[k].y = racers[k].y) ]_vars

\* C13 (amended): resolveCollisions changes only x and y of racers; when no
\* pair of racers is closer than the required separation no position changes,
\* and resolving a pair that is not closer than its required separation
\* changes nothing. (A racer that starts apart from all others can still be
\* moved, when an earlier pair of the same call pushed a racer toward it.)
C13_PositionsOnly ==
  [][ pc = "collide" =>
        /\ \A k \in 1..Len(racers) :
             NonPosition(racers'[k]) = NonPosition(racers[k])
        /\ (\A k \in 1..Len(racers) : Apart(racers, k)) => racers' = racers
        /\ \A i, j \in 1..Len(racers) :
             (i < j /\ ~TooClose(racers[i], racers[j])) =>
               ResolvePair(racers, i, j) = racers ]_vars

\* The pack right after its first resolveCollisions: a racer that stood at the
\* lowest offset, apart from every other racer (none of them shared its
\* place), has been pushed beyond it by a racer that an earlier pair of the
\* call moved toward it; its other fields are as before the call
C13_Witness ==
  /\ pc = "check"
  /\ raceFrameCount = MaxFrames - MaxLateTicks
  /\ \A m \in 1..Len(racers) :
       racers[m].y = 25000 /\ racers[m].pathIndex = 30
  /\ \E k \in 1..Len(racers) :
       /\ racers[k].x < 57500 - 1720
       /\ racers[k].currentSpeed = 24000
       /\ \A m \in 1..Len(racers) : m # k => racers[m].x > 57500 - 1720
----------------------------------------------------------------------------
(* HeadlessRaceSimulator: the race run without rendering                    *)

\* Most frames a headless run is given
MaxRunFrames == 940

\* runRace's argument: no frame at all, a limit that cuts a one-lap race short
\* between two finishers, and one that lets it end
FrameLimits == {0, MaxRunFrames - 10, MaxRunFrames}

\* initRacers with the default 'random' distribution on a track without a
\* start line: the grid is laid out behind racingPath[0], facing +x
initRacers(path, seed) ==
  LET pose == [ startPoint |-> At(path, 0), angle |-> Atan2(0, 1000),
                dirX |-> 1000, dirY |-> 0 ]
  IN [ k \in 1..NumRacers |->
         Racer(k - 1, GridPosition(pose, k - 1), pose.angle, FALSE, <<>>,
               Draw(seed, RacerDraws(<<>>) * (k - 1))) ]

\* new HeadlessRaceSimulator(options), initRacers(), and the call of
\* runRace(maxFrames) about to test its loop condition
InitHeadless ==
  /\ bezierNodes = getBezierNodes
  /\ racingPath = bezierNodes
  /\ racers = <<>>
  /\ totalLaps = 3
  /\ raceFrameCount = 0
  /\ raceFinished = FALSE
  /\ \E laps \in 1..MaxLaps, seed \in 0..MaxSeed, limit \in FrameLimits :
       /\ headless = [ racers |-> initRacers(PathPoints(racingPath), seed),
                       frameCount |-> 0,
                       raceFinished |-> FALSE,
                       finishOrder |-> <<>>,
                       totalLaps |-> laps,
                       maxFrames |-> limit ]
       /\ rngState = Draw(seed, RacerDraws(<<>>) * NumRacers)
  /\ loop = LoopAtRest
  /\ trackType = "track1"
  /\ trackEditor = EditorOff
  /\ manager = NewManager
  /\ pc = "runRace"
  /\ idx = 1
  /\ now = 0

\* Faulty variant: the loop goes on after the race is finished
SimulateFrame_IgnoreFinished ==
  /\ pc = "runRace"
  /\ headless.frameCount < headless.maxFrames
  /\ headless' = [headless EXCEPT !.frameCount = @ + 1]
  /\ now' = now + 1
  /\ idx' = 1
  /\ pc' = "simUpdate"
  /\ UNCHANGED <<bezierNodes, racingPath, racers, totalLaps, raceFrameCount,
                 raceFinished, rngState, loop, trackType, trackEditor, manager>>

\* runRace: the loop condition holds; simulateFrame starts with frameCount++
SimulateFrame ==
  /\ pc = "runRace"
  /\ ~headless.raceFinished
  /\ headless.frameCount < headless.maxFrames
  /\ headless' = [headless EXCEPT !.frameCount = @ + 1]
  /\ now' = now + 1
  /\ idx' = 1
  /\ pc' = "simUpdate"
  /\ UNCHANGED <<bezierNodes, racingPath, racers, totalLaps, raceFrameCount,
                 raceFinished, rngState, loop, trackType, trackEditor, manager>>

\* runRace: the loop condition fails; getResults is returned
ReturnResults ==
  /\ pc = "runRace"
  /\ ~(~headless.raceFinished /\ headless.frameCount < headless.maxFrames)
  /\ pc' = "returned"
  /\ UNCHANGED <<bezierNodes, racingPath, racers, totalLaps, raceFrameCount,
                 raceFinished, idx, rngState, now, headless, loop, trackType, trackEditor, manager>>

\* finishOrder after one racer's update
TrackFinishOrder(order, racer) ==
  IF racer.finished /\ \A k \in 1..Len(order) : order[k] # racer.id
  THEN Append(order, racer.id)
  ELSE order

\* One iteration of simulateFrame's  for (const racer of this.racers)
SimulateRacer ==
  /\ pc = "simUpdate"
  /\ LET res == updateRacer(headless.racers[idx], PathPoints(racingPath),
                            headless.frameCount, headless.totalLaps, rngState, now)
     IN /\ headless' = [headless EXCEPT
                          !.racers[idx] = res.racer,
                          !.finishOrder = TrackFinishOrder(@, res.racer)]
        /\ rngState' = res.rng
  /\ idx' = idx + 1
  /\ pc' = IF idx = Len(headless.racers) THEN "simCollide" ELSE "simUpdate"
  /\ UNCHANGED <<bezierNodes, racingPath, racers, totalLaps, raceFrameCount,
                 raceFinished, now, loop, trackType, trackEditor, manager>>

\* simulateFrame: this.physics.resolveCollisions(this.racers)
SimulateCollisions ==
  /\ pc = "simCollide"
  /\ headless' = [headless EXCEPT !.racers = resolveCollisions(@)]
  /\ pc' = "simCheck"
  /\ UNCHANGED <<bezierNodes, racingPath, racers, totalLaps, raceFrameCount,
                 raceFinished, idx, rngState, now, loop, trackType, trackEditor, manager>>

\* simulateFrame: the race is finished when every racer is
SimulateFinishCheck ==
  /\ pc = "simCheck"
  /\ headless' = [headless EXCEPT
                    !.raceFinished =
                      @ \/ \A k \in 1..Len(headless.racers) : headless.racers[k].finished]
  /\ pc' = "runRace"
  /\ UNCHANGED <<bezierNodes, racingPath, racers, totalLaps, raceFrameCount,
                 raceFinished, idx, rngState, now, loop, trackType, trackEditor, manager>>

NextHeadless ==
  \/ SimulateFrame
  \/ SimulateRacer
  \/ SimulateCollisions
  \/ SimulateFinishCheck
  \/ ReturnResults

\* A session observed late on the last lap: the racers come down the final
\* stretch of the stadium track, 15 px apart, rolling or at rest
FinalStretch(k) == [x |-> 48500 - 1500 * (k - 1), y |-> 25000]

InitFinalLap ==
  /\ bezierNodes = getBezierNodes
  /\ racingPath = bezierNodes
  /\ totalLaps \in 1..MaxLaps
  /\ \E seed \in 0..MaxSeed, speed \in SpeedLevels :
       /\ racers = [ k \in 1..NumRacers |->
                       [ Racer(k - 1, FinalStretch(k), 0, (k - 1) \in PLAYER_INDICES,
                               ParamsOf(k - 1), RngBefore(seed, k - 1))
                           EXCEPT !.pathIndex = 414 - 6 * (k - 1),
                                  !.lap = totalLaps - 1,
                                  !.progress = (totalLaps - 1) * 1000000
                                               + Div((414 - 6 * (k - 1)) * 1000000, 420),
                                  !.currentSpeed = speed ] ]
       /\ rngState = RngBefore(seed, NumRacers)
  /\ raceFrameCount = MaxFrames - MaxLateTicks
  /\ raceFinished = FALSE
  /\ pc = "idle"
  /\ idx = 1
  /\ now = 17 * raceFrameCount
  /\ headless = NoSimulator
  /\ loop = LoopAtRest
  /\ trackType = "stadium"
  /\ trackEditor = EditorOff
  /\ manager = NewManager

\* A session driven tick by tick and a headless simulator running a race
SpecDrivers == (InitFinalLap \/ InitHeadless) /\ [][Next \/ NextHeadless]_vars

----------------------------------------------------------------------------
(* Order of the steps of one tick                                           *)

\* The racers and the frame counter of whichever driver is in a tick
TickRacers == IF pc \in {"update", "collide", "check"} THEN racers ELSE headless.racers

TickRacersAfter == IF pc \in {"update", "collide", "check"} THEN racers' ELSE headless.racers'

TickFrame == IF pc \in {"idle", "update", "collide", "check"}
             THEN raceFrameCount ELSE headless.frameCount

TickFrameAfter == IF pc \in {"idle", "update", "collide", "check"}
                  THEN raceFrameCount' ELSE headless.frameCount'

TickLaps == IF pc \in {"update", "collide", "check"} THEN totalLaps ELSE headless.totalLaps

\* C14: in RaceSession.update and in HeadlessRaceSimulator.simulateFrame alike,
\* a tick first increments the frame counter by exactly 1, then runs updateRacer
\* once for each racer in turn with that frame count, then runs
\* resolveCollisions once, then does the finish-state bookkeeping; the frame
\* counter changes nowhere else.
C14_TickOrdering ==
  [][ /\ (pc \in {"idle", "runRace"} /\ pc' # "returned")
           => /\ TickFrameAfter = TickFrame + 1
              /\ pc' = (IF pc = "idle" THEN "update" ELSE "simUpdate")
              /\ idx' = 1
      /\ pc \in {"update", "simUpdate"}
           => /\ TickFrameAfter = TickFrame
              /\ idx \in 1..Len(TickRacers)
              /\ TickRacersAfter =
                   [TickRacers EXCEPT ![idx] =
                      updateRacer(TickRacers[idx], Path, TickFrame, TickLaps,
                                  rngState, now).racer]
              /\ idx' = idx + 1
              /\ pc' = (IF idx < Len(TickRacers) THEN pc
                        ELSE IF pc = "update" THEN "collide" ELSE "simCollide")
      /\ pc \in {"collide", "simCollide"}
           => /\ TickFrameAfter = TickFrame
              /\ idx = Len(TickRacers) + 1
              /\ TickRacersAfter = resolveCollisions(TickRacers)
              /\ pc' = (IF pc = "collide" THEN "check" ELSE "simCheck")
      /\ pc \in {"check", "simCheck"}
           => /\ TickFrameAfter = TickFrame
              /\ TickRacersAfter = TickRacers
              /\ pc' = (IF pc = "check" THEN "idle" ELSE "runRace")
              /\ (pc = "check" =>
                    raceFinished' = (raceFinished \/ \A k \in 1..Len(racers) : racers[k].finished))
              /\ (pc = "simCheck" =>
                    headless.raceFinished' =
                      (headless.raceFinished
                         \/ \A k \in 1..Len(headless.racers) : headless.racers[k].finished))
    ]_vars

\* A headless frame at its bookkeeping step, every racer updated and under way
C14_Witness ==
  /\ pc = "simCheck"
  /\ headless.frameCount = 300
  /\ idx = Len(headless.racers) + 1
  /\ \A k \in 1..Len(headless.racers) : headless.racers[k].currentSpeed > 0

----------------------------------------------------------------------------
(* Race-finished flag                                                       *)

AllFinished(rs) == \A k \in 1..Len(rs) : rs[k].finished

\* C15: when a tick ends, raceFinished is true exactly if every racer is
\* finished, in the session and in the headless simulator alike; and once the
\* flag is true no step makes it false again.
C15_RaceFinishedFlag ==
  [][ /\ pc = "check" => (raceFinished' <=> AllFinished(racers'))
      /\ pc = "simCheck" => (headless.raceFinished' <=> AllFinished(headless.racers'))
      /\ raceFinished => raceFinished'
      /\ headless.raceFinished => headless.raceFinished'
    ]_vars

\* A session tick has ended with the race finished, after ticks that ended with
\* the race still open
C15_Witness ==
  /\ pc = "idle"
  /\ raceFrameCount > MaxFrames - MaxLateTicks
  /\ raceFinished
  /\ AllFinished(racers)
  /\ \E k \in 1..Len(racers) : racers[k].finishTime < now

----------------------------------------------------------------------------
(* GameManager.gameLoop: fixed-timestep accumulator                         *)

\* requestAnimationFrame timestamps a frame callback may be given
Timestamps == {Ms(10), Ms(27), Ms(43), Ms(60), Ms(127)}

\* A freshly initialised session under the game loop: RaceSession.init sets
\* totalLaps to 3 and lays the racers out on the grid
InitLoop ==
  /\ bezierNodes = getBezierNodes
  /\ racingPath = bezierNodes
  /\ totalLaps = 3
  /\ \E seed \in 0..MaxSeed :
       /\ racers = CreateRacers(PathPoints(racingPath), "grid", seed)
       /\ rngState = RngBefore(seed, NumRacers)
  /\ raceFrameCount = 0
  /\ raceFinished = FALSE
  /\ pc = "idle"
  /\ idx = 1
  /\ now = 0
  /\ headless = NoSimulator
  /\ loop = LoopAtRest
  /\ trackType = "stadium"
  /\ trackEditor = EditorOff
  /\ manager = NewManager

\* this.accumulator += deltaTime, capped at this.fixedTimestep * 5
Accumulate(accumulator, deltaTime) ==
  LET sum == DAdd(accumulator, deltaTime)
      cap == DMul(fixedTimestep, 5)
  IN IF DLess(cap, sum) THEN cap ELSE sum

\* Faulty variant: a paused loop does not record the timestamp
GameLoop_PausedClockStops ==
  /\ loop.phase = "rest"
  /\ \E timestamp \in Timestamps :
       /\ DLess(loop.called, timestamp)
       /\ LET last == IF loop.lastTimestamp = Zero THEN timestamp
                      ELSE loop.lastTimestamp
              deltaTime == DSub(timestamp, last)
          IN loop' = IF loop.isPaused
                     THEN [loop EXCEPT !.called = timestamp,
                                       !.pausedCalls = @ + 1]
                     ELSE [loop EXCEPT
                             !.lastTimestamp = timestamp,
                             !.accumulator = Accumulate(@, deltaTime),
                             !.entered = Accumulate(loop.accumulator, deltaTime),
                             !.ticks = 0,
                             !.phase = "while",
                             !.called = timestamp]
  /\ UNCHANGED <<bezierNodes, racingPath, racers, totalLaps, raceFrameCount,
                 raceFinished, pc, idx, rngState, now, headless, trackType, trackEditor, manager>>

\* gameLoop(timestamp) up to its while loop; a paused loop only records the
\* timestamp and returns
GameLoop ==
  /\ loop.phase = "rest"
  /\ \E timestamp \in Timestamps :
       /\ DLess(loop.lastTimestamp, timestamp)
       /\ LET last == IF loop.lastTimestamp = Zero THEN timestamp
                      ELSE loop.lastTimestamp
              deltaTime == DSub(timestamp, last)
          IN loop' = IF loop.isPaused
                     THEN [loop EXCEPT !.lastTimestamp = timestamp,
                                       !.called = timestamp,
                                       !.pausedCalls = @ + 1]
                     ELSE [loop EXCEPT
                             !.lastTimestamp = timestamp,
                             !.accumulator = Accumulate(@, deltaTime),
                             !.entered = Accumulate(loop.accumulator, deltaTime),
                             !.ticks = 0,
                             !.phase = "while",
                             !.called = timestamp]
  /\ UNCHANGED <<bezierNodes, racingPath, racers, totalLaps, raceFrameCount,
                 raceFinished, pc, idx, rngState, now, headless, trackType, trackEditor, manager>>

\* while (this.accumulator >= this.fixedTimestep): the condition holds and
\* session.update() starts with this.raceFrameCount++
LoopUpdate ==
  /\ loop.phase = "while"
  /\ ~DLess(loop.accumulator, fixedTimestep)
  /\ pc = "idle"
  /\ raceFrameCount < MaxFrames
  /\ raceFrameCount' = raceFrameCount + 1
  /\ now' = now + 17
  /\ pc' = "update"
  /\ idx' = 1
  /\ loop' = [loop EXCEPT !.phase = "update"]
  /\ UNCHANGED <<bezierNodes, racingPath, racers, totalLaps, raceFinished, rngState,
                 headless, trackType, trackEditor, manager>>

\* session.update() has returned: this.accumulator -= this.fixedTimestep
LoopStep ==
  /\ loop.phase = "update"
  /\ pc = "idle"
  /\ loop' = [loop EXCEPT !.accumulator = DSub(@, fixedTimestep),
                          !.ticks = @ + 1,
                          !.phase = "while"]
  /\ UNCHANGED <<bezierNodes, racingPath, racers, totalLaps, raceFrameCount,
                 raceFinished, pc, idx, rngState, now, headless, trackType, trackEditor, manager>>

\* The while condition fails: gameLoop renders and returns
LoopReturn ==
  /\ loop.phase = "while"
  /\ DLess(loop.accumulator, fixedTimestep)
  /\ loop' = [loop EXCEPT !.phase = "rest"]
  /\ UNCHANGED <<bezierNodes, racingPath, racers, totalLaps, raceFrameCount,
                 raceFinished, pc, idx, rngState, now, headless, trackType, trackEditor, manager>>

\* GameManager.togglePause, between two frame callbacks
TogglePause ==
  /\ loop.phase = "rest"
  /\ loop.lastTimestamp # Zero
  /\ loop' = [loop EXCEPT !.isPaused = ~@]
  /\ UNCHANGED <<bezierNodes, racingPath, racers, totalLaps, raceFrameCount,
                 raceFinished, pc, idx, rngState, now, headless, trackType, trackEditor, manager>>

NextLoop ==
  \/ GameLoop
  \/ LoopUpdate
  \/ UpdateRacer
  \/ ResolveCollisions
  \/ CheckFinishState
  \/ LoopStep
  \/ LoopReturn
  \/ TogglePause

SpecGameLoop == InitLoop /\ [][NextLoop]_vars

\* floor(a / fixedTimestep) in exact arithmetic, for a <= 6 * fixedTimestep
WholeSteps(a) ==
  CHOOSE k \in 0..6 : /\ ~DLess(a, Times(fixedTimestep, k))
                      /\ DLess(a, Times(fixedTimestep, k + 1))

\* C16: when an unpaused gameLoop call has left its while loop, the number of
\* ticks it ran is floor(min(accumulator + deltaTime, 5 * fixedTimestep) /
\* fixedTimestep), which is at most 5, and 0 <= accumulator < fixedTimestep.
C16_TickCount ==
  (loop.phase = "rest" /\ loop.lastTimestamp # Zero)
    => /\ loop.ticks = WholeSteps(loop.entered)
       /\ loop.ticks <= 5
       /\ ~DLess(loop.accumulator, Zero)
       /\ DLess(loop.accumulator, fixedTimestep)

----------------------------------------------------------------------------
(* HeadlessRaceSimulator.getResults                                         *)

\* Index in [...racers].sort((a, b) => b.progress - a.progress) of racers[k]:
\* racers with more progress come first, and the sort being stable, racers
\* with equal progress keep their array order
SortedIndex(rs, k) ==
  1 + Cardinality({m \in 1..Len(rs) : rs[m].progress > rs[k].progress})
    + Cardinality({m \in 1..(k - 1) : rs[m].progress = rs[k].progress})

\* getResults: the standings (position, id, finished, finishTime), the winner
\* (the first of the standings) and the frame totals
getResults(sim) ==
  LET racerAt(pos) == CHOOSE k \in 1..Len(sim.racers) : SortedIndex(sim.racers, k) = pos
      standings == [ pos \in 1..Len(sim.racers) |->
                       [ position |-> pos,
                         id |-> sim.racers[racerAt(pos)].id,
                         lap |-> sim.racers[racerAt(pos)].lap,
                         progress |-> sim.racers[racerAt(pos)].progress,
                         finished |-> sim.racers[racerAt(pos)].finished,
                         finishTime |-> sim.racers[racerAt(pos)].finishTime ] ]
  IN [ totalLaps |-> sim.totalLaps,
       totalFrames |-> sim.frameCount,
       finished |-> sim.raceFinished,
       standings |-> standings,
       winner |-> IF Len(standings) > 0 THEN standings[1].id ELSE -1 ]

\* C17: in the results runRace returns, a racer that became finished on an
\* earlier frame than another stands before it, and the winner is the first
\* racer that finished.
C17_StandingsFollowFinishOrder ==
  pc = "returned"
    => LET results == getResults(headless)
       IN /\ \A a, b \in 1..Len(results.standings) :
               ( /\ results.standings[a].finished
                 /\ results.standings[b].finished
                 /\ results.standings[a].finishTime < results.standings[b].finishTime )
               => results.standings[a].position < results.standings[b].position
          /\ headless.finishOrder # <<>>
               => results.winner = headless.finishOrder[1]

----------------------------------------------------------------------------
(* Termination of runRace                                                   *)

\* A headless run on its own
SpecRunRace == InitHeadless /\ [][NextHeadless]_vars

\* Steps of one simulated frame: frameCount++, one update per racer,
\* resolveCollisions, the finish check
FrameSteps == Len(headless.racers) + 3

\* An upper bound of the steps runRace still takes before it returns
StepsToReturn ==
  IF pc = "returned" THEN 0
  ELSE (headless.maxFrames - headless.frameCount) * FrameSteps + 1
       + (IF pc = "simUpdate" THEN Len(headless.racers) - idx + 3
          ELSE IF pc = "simCollide" THEN 2
          ELSE IF pc = "simCheck" THEN 1
          ELSE 0)

\* C18: runRace(maxFrames) terminates: until it has returned it can always take
\* a step, and every step lowers a bound on the steps left that never goes
\* below zero. When it has returned, frameCount <= maxFrames and the race is
\* finished or frameCount = maxFrames; and no frame is simulated once
\* raceFinished is true.
C18_RunRaceTerminates ==
  /\ [](/\ pc \in {"runRace", "simUpdate", "simCollide", "simCheck", "returned"}
        /\ pc = "simUpdate" => idx \in 1..Len(headless.racers)
        /\ StepsToReturn >= 0)
  /\ [][StepsToReturn' < StepsToReturn]_vars
  /\ [](pc = "returned"
          => /\ headless.frameCount <= headless.maxFrames
             /\ headless.raceFinished \/ headless.frameCount = headless.maxFrames)
  /\ [][headless.raceFinished => headless.frameCount' = headless.frameCount]_vars

\* runRace has returned a finished race before the frame limit
C18_Witness ==
  /\ pc = "returned"
  /\ headless.raceFinished
  /\ headless.frameCount > 0
  /\ headless.frameCount < headless.maxFrames

----------------------------------------------------------------------------
(* Track provider: lookup of a track's nodes by id                          *)

\* tracks.js: the nodes of 'l-shape'
LShapeNodes ==
  << Node(400, 150, -50, 0, 50, 0),
     Node(600, 150, -50, 0, 30, 0),
     Node(650, 200, 0, -30, 0, 30),
     Node(650, 250, 0, -30, 0, 30),
     Node(600, 300, 30, 0, -30, 0),
     Node(500, 300, 30, 0, -30, 0),
     Node(450, 350, 0, -30, 0, 30),
     Node(450, 400, 0, -30, 0, 30),
     Node(400, 450, 30, 0, -30, 0),
     Node(300, 450, 30, 0, -30, 0),
     Node(250, 400, 0, 30, 0, -30),
     Node(250, 200, 0, 30, 0, -30),
     Node(300, 150, -30, 0, 30, 0) >>

\* tracks.js: the nodes of 's-curve'
SCurveNodes ==
  << Node(600, 200, -50, 0, 50, 0),
     Node(900, 200, -50, 0, 30, 0),
     Node(1030, 280, 0, -40, 0, 40),
     Node(950, 360, 30, 0, -50, 0),
     Node(700, 360, 50, 0, -30, 0),
     Node(620, 440, 0, -40, 0, 40),
     Node(580, 500, 20, -20, -20, 20),
     Node(500, 560, 30, 0, -30, 0),
     Node(360, 480, 0, 40, 0, -40),
     Node(360, 360, 0, 40, 0, -40),
     Node(380, 280, -20, 20, 20, -20),
     Node(440, 200, -20, 10, 30, 0) >>

\* The later revision of the provider: the nodes of 'general-roca'
GeneralRocaNodes ==
  << Node(2279, 315, -60, 24, 60, -24),
     Node(2480, 421, -41, -97, 41, 97),
     Node(2415, 640, 82, -66, -82, 66),
     Node(1934, 721, 144, -24, -144, 24),
     Node(1352, 746, 103, -24, -103, 24),
     Node(1244, 827, 29, -61, -29, 61),
     Node(1256, 949, -64, -66, 64, 66),
     Node(1458, 1046, -160, -10, 160, 10),
     Node(2327, 1080, -140, -35, 140, 35),
     Node(2393, 1163, 14, -60, -14, 60),
     Node(2281, 1280, 111, -35, -111, 35),
     Node(1653, 1306, 188, -7, -188, 7),
     Node(956, 1325, 209, 6, -209, -6),
     Node(336, 1285, 186, 32, -186, -32),
     Node(259, 1115, -43, 100, 43, -100),
     Node(402, 953, -60, 49, 60, -49),
     Node(461, 824, -18, 111, 18, -111),
     Node(435, 453, -38, 161, 38, -161),
     Node(309, 288, 1, 80, -1, -80),
     Node(420, 187, -94, 0, 94, 0),
     Node(623, 290, -48, -79, 48, 79),
     Node(686, 513, 15, -98, -15, 98),
     Node(572, 883, -6, -178, 6, 178),
     Node(565, 1052, -40, -65, 40, 65),
     Node(705, 1101, -77, 59, 77, -59),
     Node(962, 856, -55, 73, 55, -73),
     Node(1147, 690, -93, 50, 93, -50),
     Node(1456, 550, -152, 42, 152, -42),
     Node(1961, 387, -95, -21, 95, 21) >>

\* getBezierNodes(type) of tracks.js: every other id gets the stadium
getBezierNodesByType(type) ==
  IF type = "l-shape" THEN LShapeNodes
  ELSE IF type = "s-curve" THEN SCurveNodes
  ELSE getBezierNodes

\* getBezierNodes(type) of the later revision: every other id gets the stadium
getBezierNodesGeneralRoca(type) ==
  IF type = "general-roca" THEN GeneralRocaNodes
  ELSE getBezierNodes

\* The ids either revision of the provider defines a track for
DefinedTracks == {"l-shape", "s-curve", "stadium", "general-roca"}

\* Track ids a session is asked for: the defined ones, the headless
\* simulator's default 'track1', a misspelt id, and a missing id
TrackTypes == DefinedTracks \cup {"track1", "s-curv", "undefined"}

\* A session about to be constructed for some track id
InitTracks ==
  /\ trackType \in TrackTypes
  /\ bezierNodes = <<>>
  /\ racingPath = <<>>
  /\ racers = <<>>
  /\ totalLaps = 5
  /\ raceFrameCount = 0
  /\ raceFinished = FALSE
  /\ pc = "new"
  /\ idx = 1
  /\ rngState \in 0..MaxSeed
  /\ now = 0
  /\ headless = NoSimulator
  /\ loop = LoopAtRest
  /\ trackEditor = EditorOff
  /\ manager = NewManager

\* new RaceSession(containerId, trackType, title), with either revision of
\* the provider
NewSession ==
  /\ pc = "new"
  /\ bezierNodes' \in {getBezierNodesByType(trackType),
                       getBezierNodesGeneralRoca(trackType)}
  /\ racingPath' = <<>>
  /\ pc' = "constructed"
  /\ UNCHANGED <<racers, totalLaps, raceFrameCount, raceFinished, idx, rngState,
                 now, headless, loop, trackType, trackEditor, manager>>

\* TrackEditor, Delete key: the last node is removed and the racing path is
\* generated again
DeleteLastNode ==
  /\ pc = "constructed"
  /\ Len(bezierNodes) > 1
  /\ bezierNodes' = SubSeq(bezierNodes, 1, Len(bezierNodes) - 1)
  /\ racingPath' = bezierNodes'
  /\ UNCHANGED <<racers, totalLaps, raceFrameCount, raceFinished, pc, idx, rngState,
                 now, headless, loop, trackType, trackEditor, manager>>

NextTracks ==
  \/ NewSession
  \/ DeleteLastNode

SpecTracks == InitTracks /\ [][NextTracks]_vars

\* C19: a session constructed for a track id that is not a defined track gets
\* no node list from the provider (the lookup fails instead).
C19_UnknownTrackFails ==
  (pc = "constructed" /\ trackType \notin DefinedTracks) => bezierNodes = <<>>

----------------------------------------------------------------------------
(* Sampling of the racing line                                              *)

\* The anchor of a node, in 1/100 px
Anchor(node) == [x |-> 100 * node.x, y |-> 100 * node.y]

\* C20: a racing line generated from N >= 3 nodes has exactly 60 * N points,
\* and its point 60 * i is the anchor of node i for every i in 0..N-1; so the
\* first point is the anchor of node 0.
C20_SixtyPointsPerNode ==
  (pc = "constructed" /\ Len(racingPath) >= 3)
    => /\ Len(PathPoints(racingPath)) = 60 * Len(racingPath)
       /\ DOMAIN PathPoints(racingPath) = 1..(60 * Len(racingPath))
       /\ \A i \in 0..(Len(racingPath) - 1) :
            At(PathPoints(racingPath), 60 * i) = Anchor(racingPath[i + 1])

\* The editor has regenerated the line of the 's-curve' track from 11 nodes
C20_Witness ==
  /\ pc = "constructed"
  /\ trackType = "s-curve"
  /\ Len(racingPath) = 11
  /\ racingPath = SubSeq(SCurveNodes, 1, 11)
  /\ At(PathPoints(racingPath), 600) = Anchor(SCurveNodes[11])

----------------------------------------------------------------------------
(* Determinism of updateRacer                                               *)

\* The part of a racer a trajectory consists of
Trajectory(racer) ==
  [ x |-> racer.x, y |-> racer.y, angle |-> racer.angle,
    currentSpeed |-> racer.currentSpeed, pathIndex |-> racer.pathIndex,
    lap |-> racer.lap, progress |-> racer.progress, fuel |-> racer.fuel,
    tires |-> racer.tires, finished |-> racer.finished ]

\* How much later the clock of a second run may stand
ClockOffsets == {5000}

\* The same updateRacer call in a second run: same racer as far as its
\* trajectory and its constants go, same path, frame count, laps and random
\* sequence, but performance.now() stands "offset" later, and so does the
\* finishTime an earlier call of that run recorded
SecondRun(racer, offset) ==
  updateRacer([racer EXCEPT !.finishTime = IF racer.finished THEN @ + offset ELSE @],
              Path, TickFrame, TickLaps, rngState, now + offset)

\* The call this step makes comes out the same in a second run
SameInSecondRun ==
  pc \in {"update", "simUpdate"} =>
    \A offset \in ClockOffsets :
      /\ Trajectory(SecondRun(TickRacers[idx], offset).racer)
           = Trajectory(TickRacersAfter[idx])
      /\ SecondRun(TickRacers[idx], offset).rng = rngState'

\* C21: with the random source fixed, an updateRacer call of a second run that
\* starts from the same racer, path, frame count and totalLaps yields the same
\* x, y, angle, currentSpeed, pathIndex, lap, progress, fuel, tires and
\* finished (and leaves the random source in the same state), so two runs agree
\* at every tick.
C21_Deterministic ==
  [][SameInSecondRun]_vars

\* A call in which a racer of the session finished, so that the clock was read
C21_Witness ==
  /\ pc = "update"
  /\ idx > 1
  /\ racers[idx - 1].finished
  /\ racers[idx - 1].finishTime = now

----------------------------------------------------------------------------
(* A racer alone on the stadium                                             *)

\* The number of updateRacer calls a race is followed for
MaxRaceTicks == 20000

\* The strategies (engineMap and tireAggression) and headings a lone racer
\* starts with
SoloStrategies == {0, 100}
SoloHeadings == {0, 314}

\* One racer on the first path point of the stadium, at rest, in a race of
\* three laps
InitSolo ==
  /\ bezierNodes = getBezierNodes
  /\ racingPath = bezierNodes
  /\ totalLaps = 3
  /\ \E seed \in 0..MaxSeed, strategy \in SoloStrategies,
        heading \in SoloHeadings, k \in 1..Len(BIKE_ARCHETYPE_KEYS) :
       /\ racers = << [ Racer(0, At(PathPoints(racingPath), 0), heading, FALSE,
                              [ tireAggression |-> strategy,
                                engineMap |-> strategy,
                                risk |-> 60 ], seed)
                          EXCEPT !.bikeType = BIKE_ARCHETYPE_KEYS[k] ] >>
       /\ rngState = RngBefore(seed, 1)
  /\ raceFrameCount = 0
  /\ raceFinished = FALSE
  /\ pc = "solo"
  /\ idx = 1
  /\ now = 0
  /\ headless = NoSimulator
  /\ loop = LoopAtRest
  /\ trackType = "stadium"
  /\ trackEditor = EditorOff
  /\ manager = NewManager

\* frameCount++; updateRacer(racer, racingPath, frameCount, totalLaps), until
\* the racer is finished
SoloTick ==
  /\ pc = "solo"
  /\ ~racers[1].finished
  /\ raceFrameCount < MaxRaceTicks
  /\ raceFrameCount' = raceFrameCount + 1
  /\ now' = now + 17
  /\ racers' = << updateRacer(racers[1], Path, raceFrameCount + 1, totalLaps,
                              rngState, now + 17).racer >>
  /\ rngState' = updateRacer(racers[1], Path, raceFrameCount + 1, totalLaps,
                             rngState, now + 17).rng
  /\ UNCHANGED <<bezierNodes, racingPath, totalLaps, raceFinished, pc, idx, headless, loop, trackType, trackEditor, manager>>

SpecSolo == InitSolo /\ [][SoloTick]_vars

\* The number of updateRacer calls a lap is allowed to take
MaxLapTicks == 1000

\* The first frame at which every racer is past its start gating: launchDelay
\* is below 15
LatestLaunch == GAME_CONFIG.startDelayFrames + 15

\* The frame count before which a racer in its current lap has completed it
LapDeadline(racer) == LatestLaunch + (racer.lap + 1) * MaxLapTicks

\* C22: a racer that starts at rest on the first path point of the stadium, in
\* a race of three laps, is finished before it has been updated 20000 times:
\* as long as it is not finished it completes every lap within MaxLapTicks
\* updates, and three such laps after the latest launch end before update
\* 20000.
C22_RaceCompletes ==
  pc = "solo" =>
    /\ LatestLaunch + totalLaps * MaxLapTicks < MaxRaceTicks
    /\ ~racers[1].finished =>
         /\ racers[1].lap < totalLaps
         /\ raceFrameCount < LapDeadline(racers[1])

\* The racer has finished its third lap
C22_Witness ==
  /\ pc = "solo"
  /\ racers[1].finished
  /\ racers[1].lap = 3
  /\ raceFrameCount < MaxRaceTicks - 1

----------------------------------------------------------------------------
(* The track editor                                                         *)

\* trackEditor.enable() has run
EditorOn == [EditorOff EXCEPT !.enabled = TRUE]

\* Event handlers run between two gameLoop calls, also after gameLoop has died
BetweenFrames == pc \in {"idle", "thrown"}

\* Math.hypot(px - m.x, py - m.y) < 15
Grabs(px, py, m) ==
  /\ Abs(px - m.x) < 15
  /\ Abs(py - m.y) < 15
  /\ (px - m.x) * (px - m.x) + (py - m.y) * (py - m.y) < 15 * 15

\* The order in which onMouseDown tests the three parts of a node
DragTypes == <<"in", "out", "anchor">>

\* The click m lands on part DragTypes[t] of node n
GrabsPart(n, t, m) ==
  CASE DragTypes[t] = "in" -> Grabs(n.x + n.handleIn.x, n.y + n.handleIn.y, m)
    [] DragTypes[t] = "out" -> Grabs(n.x + n.handleOut.x, n.y + n.handleOut.y, m)
    [] DragTypes[t] = "anchor" -> Grabs(n.x, n.y, m)

\* The parts of the nodes the click m lands on, as <<node index, test>>
GrabbedParts(nodes, m) ==
  { h \in (1..Len(nodes)) \X (1..Len(DragTypes)) : GrabsPart(nodes[h[1]], h[2], m) }

\* The dragTarget the loop of onMouseDown leaves: the first part it finds, or
\* the previous one if the click lands on nothing
GrabTarget(nodes, m, previous) ==
  LET hits == GrabbedParts(nodes, m)
  IN IF hits = {} THEN previous
     ELSE LET first == CHOOSE h \in hits :
                         \A g \in hits : h[1] < g[1] \/ (h[1] = g[1] /\ h[2] <= g[2])
          IN [type |-> DragTypes[first[2]], index |-> first[1] - 1]

\* TrackEditor.onMouseDown with the world position m
OnMouseDown(m) ==
  /\ BetweenFrames
  /\ trackEditor.enabled
  /\ IF trackEditor.creationMode
     THEN /\ Len(bezierNodes) < MaxNodes
          /\ bezierNodes' = Append(bezierNodes, Node(m.x, m.y, -50, -50, 50, 50))
          /\ racingPath' = bezierNodes'
          /\ UNCHANGED trackEditor
     ELSE /\ trackEditor' =
               [trackEditor EXCEPT
                  !.dragTarget = GrabTarget(bezierNodes, m, trackEditor.dragTarget)]
          /\ UNCHANGED <<bezierNodes, racingPath>>
  /\ UNCHANGED <<racers, totalLaps, raceFrameCount, raceFinished, pc, idx, rngState,
                 now, headless, loop, trackType, manager>>

\* TrackEditor.onMouseMove with the world position m while something is
\* dragged (without a drag target only the cursor changes; with a target whose
\* node is gone "node.x" throws before anything is written)
OnMouseMove(m) ==
  /\ BetweenFrames
  /\ trackEditor.enabled
  /\ trackEditor.dragTarget # NoDragTarget
  /\ trackEditor.dragTarget.index < Len(bezierNodes)
  /\ bezierNodes' =
       [bezierNodes EXCEPT
          ![trackEditor.dragTarget.index + 1] = Dragged(@, trackEditor.dragTarget.type, m)]
  /\ racingPath' = bezierNodes'
  /\ UNCHANGED <<racers, totalLaps, raceFrameCount, raceFinished, pc, idx, rngState,
                 now, headless, loop, trackType, trackEditor, manager>>

\* TrackEditor.onMouseUp
OnMouseUp ==
  /\ BetweenFrames
  /\ trackEditor.enabled
  /\ trackEditor.dragTarget # NoDragTarget
  /\ trackEditor' = [trackEditor EXCEPT !.dragTarget = NoDragTarget]
  /\ UNCHANGED <<bezierNodes, racingPath, racers, totalLaps, raceFrameCount,
                 raceFinished, pc, idx, rngState, now, headless, loop, trackType, manager>>

\* Faulty variant: the delete key leaves the racing path as it was
OnKeyDown_StalePath(key) ==
  /\ BetweenFrames
  /\ trackEditor.enabled
  /\ CASE key = "c" ->
            /\ trackEditor' = [trackEditor EXCEPT !.creationMode = ~@]
            /\ UNCHANGED <<bezierNodes, racingPath>>
       [] key = "delete" ->
            /\ Len(bezierNodes) > 1
            /\ bezierNodes' = SubSeq(bezierNodes, 1, Len(bezierNodes) - 1)
            /\ UNCHANGED <<racingPath, trackEditor, manager>>
       [] key = "r" ->
            /\ bezierNodes' = <<>>
            /\ racingPath' = <<>>
            /\ trackEditor' = [trackEditor EXCEPT !.creationMode = TRUE]
  /\ UNCHANGED <<racers, totalLaps, raceFrameCount, raceFinished, pc, idx, rngState,
                 now, headless, loop, trackType, manager>>

\* TrackEditor.onKeyDown for the keys that change something: "c" toggles the
\* creation mode, "delete" removes the last node but not the only one, "r"
\* (confirmed) clears the nodes and the path
OnKeyDown(key) ==
  /\ BetweenFrames
  /\ trackEditor.enabled
  /\ CASE key = "c" ->
            /\ trackEditor' = [trackEditor EXCEPT !.creationMode = ~@]
            /\ UNCHANGED <<bezierNodes, racingPath>>
       [] key = "delete" ->
            /\ Len(bezierNodes) > 1
            /\ bezierNodes' = SubSeq(bezierNodes, 1, Len(bezierNodes) - 1)
            /\ racingPath' = bezierNodes'
            /\ UNCHANGED trackEditor
       [] key = "r" ->
            /\ bezierNodes' = <<>>
            /\ racingPath' = <<>>
            /\ trackEditor' = [trackEditor EXCEPT !.creationMode = TRUE]
  /\ UNCHANGED <<racers, totalLaps, raceFrameCount, raceFinished, pc, idx, rngState,
                 now, headless, loop, trackType, manager>>

\* The number of session updates the edited race is followed for
MaxEditTicks == 2

\* An initialised stadium session late in its race, its editor enabled
InitEditedRace ==
  /\ bezierNodes = getBezierNodes
  /\ racingPath = bezierNodes
  /\ totalLaps = 3
  /\ \E seed \in 0..MaxSeed :
       /\ racers = [ k \in 1..NumRacers |->
                       [ Racer(k - 1, FinalStretch(k), 0, (k - 1) \in PLAYER_INDICES,
                               ParamsOf(k - 1), RngBefore(seed, k - 1))
                           EXCEPT !.pathIndex = 414 - 6 * (k - 1),
                                  !.lap = 1,
                                  !.progress = 1000000
                                               + Div((414 - 6 * (k - 1)) * 1000000, 420),
                                  !.currentSpeed = 24000 ] ]
       /\ rngState = RngBefore(seed, NumRacers)
  /\ raceFrameCount = MaxFrames - MaxEditTicks
  /\ raceFinished = FALSE
  /\ pc = "idle"
  /\ idx = 1
  /\ now = 17 * raceFrameCount
  /\ headless = NoSimulator
  /\ loop = LoopAtRest
  /\ trackType = "stadium"
  /\ trackEditor = EditorOn
  /\ manager = NewManager

NextEditedRace ==
  \/ BeginTick
  \/ UpdateRacer
  \/ UpdateRacerThrows
  \/ ResolveCollisions
  \/ CheckFinishState
  \/ \E m \in RaceClicks : OnMouseDown(m)
  \/ \E m \in RaceMoves : OnMouseMove(m)
  \/ OnMouseUp
  \/ \E key \in RaceKeys : OnKeyDown(key)

SpecEditedRace == InitEditedRace /\ [][NextEditedRace]_vars

\* C23: every updateRacer call of a session tick gets a racingPath generated
\* from at least 3 nodes.
C23_NoDegeneratePath ==
  pc = "update" => Len(racingPath) >= 3

\* A session tick is about to call updateRacer with the empty path the reset
\* key left
C23_EmptyPathTick ==
  /\ pc = "update"
  /\ racingPath = <<>>
  /\ ReadsEmptyPath(racers[idx], racingPath, raceFrameCount)

\* C25: whenever updateRacer reads a racer, its pathIndex is below the length
\* of the racing path, also after the editor has replaced the path by a
\* shorter one, and the progress of an unfinished racer is at most lap + 1.
C25_PathIndexInRange ==
  /\ pc = "update" => racers[idx].pathIndex < Len(Path)
  /\ \A k \in 1..Len(racers) :
       ~racers[k].finished => racers[k].progress <= (racers[k].lap + 1) * 1000000

\* After the delete key shortened the path, a tick has updated a racer whose
\* pathIndex is beyond the end of the path, and its progress exceeds lap + 1
C25_StaleIndexTick ==
  /\ pc = "collide"
  /\ racingPath # <<>>
  /\ Len(racingPath) < Len(getBezierNodes)
  /\ \E k \in 1..Len(racers) :
       /\ ~racers[k].finished
       /\ racers[k].pathIndex >= Len(Path)
       /\ racers[k].progress > (racers[k].lap + 1) * 1000000

----------------------------------------------------------------------------
(* Editing without racing                                                   *)

\* The mouse positions and keys of an editing session: the anchor and the
\* outgoing handle of the first stadium node, and a place to drag them to
EditClicks == {[x |-> 500, y |-> 250], [x |-> 550, y |-> 250]}
EditMoves == {[x |-> 500, y |-> 240]}
EditKeys == {"c", "delete", "r"}

NextEditing ==
  \/ \E m \in EditClicks : OnMouseDown(m)
  \/ \E m \in EditMoves : OnMouseMove(m)
  \/ OnMouseUp
  \/ \E key \in EditKeys : OnKeyDown(key)

SpecEditing == InitEditedRace /\ [][NextEditing]_vars

\* C24: once the session is initialised, and after every operation of the
\* editor, the racing path has 60 points for each bezier node.
C24_PathLength ==
  BetweenFrames => Len(PathPoints(racingPath)) = 60 * Len(bezierNodes)

\* Nodes were deleted, one was created and the first one was dragged; the path
\* was regenerated from the three nodes
C24_Witness ==
  /\ Len(bezierNodes) = 3
  /\ bezierNodes[1] # getBezierNodes[1]
  /\ bezierNodes[2] = getBezierNodes[2]
  /\ bezierNodes[3].handleIn = [x |-> -50, y |-> -50]
  /\ Len(PathPoints(racingPath)) = 180

----------------------------------------------------------------------------
(* Changing the mode                                                        *)

\* The number of changeMode and restart calls, and of updates of one session,
\* that are followed
MaxModeChanges == 3
MaxModeFrames == 2

\* The tracks the top bar offers here
Modes == {"stadium", "l-shape"}

\* The page before main.js has called changeMode: no session
InitModes ==
  /\ bezierNodes = <<>>
  /\ racingPath = <<>>
  /\ racers = <<>>
  /\ totalLaps = 5
  /\ raceFrameCount = 0
  /\ raceFinished = FALSE
  /\ pc = "idle"
  /\ idx = 1
  /\ rngState \in 0..MaxSeed
  /\ now = 0
  /\ headless = NoSimulator
  /\ loop = LoopAtRest
  /\ trackType = "stadium"
  /\ trackEditor = EditorOff
  /\ manager = NewManager

\* The ids of the animation frames requested
RequestIds == {r.id : r \in manager.requests}

\* The id requestAnimationFrame returns: one that no live request has and
\* that animationFrameId does not hold
FreshRequestId ==
  CHOOSE id \in 1..(Cardinality(manager.requests) + 2) :
    id \notin RequestIds \cup {manager.animationFrameId}

\* cancelAnimationFrame(animationFrameId), if animationFrameId is set
AfterCancel ==
  IF manager.animationFrameId # 0
  THEN {r \in manager.requests : r.id # manager.animationFrameId}
  ELSE manager.requests

\* gameManager.changeMode(mode) as main.js overrides it, up to the call of
\* Promise.all(...).then: the loop is cancelled, the sessions are replaced by
\* a new RaceSession, whose init is pending
ChangeMode(mode) ==
  /\ pc = "idle"
  /\ manager.calls < MaxModeChanges
  /\ manager' = [manager EXCEPT !.animationFrameId = 0,
                                !.requests = AfterCancel,
                                !.session = manager.calls + 1,
                                !.pending = @ \cup {manager.calls + 1},
                                !.currentTrack = mode,
                                !.calls = @ + 1]
  /\ loop' = [loop EXCEPT !.isPaused = FALSE]
  /\ trackType' = mode
  /\ bezierNodes' = getBezierNodesByType(mode)
  /\ racingPath' = <<>>
  /\ racers' = <<>>
  /\ totalLaps' = 5
  /\ raceFrameCount' = 0
  /\ raceFinished' = FALSE
  /\ trackEditor' = EditorOff
  /\ UNCHANGED <<pc, idx, rngState, now, headless>>

\* gameManager.restart()
Restart ==
  /\ manager.calls > 0
  /\ ChangeMode(manager.currentTrack)

\* The init of session s resolves and the callback changeMode passed to
\* Promise.all(...).then runs: the loop timing is reset and an animation frame
\* is requested. Only the init of the session that is still in
\* gameManager.sessions changes the session the model follows.
InitResolved(s) ==
  /\ pc = "idle"
  /\ s \in manager.pending
  /\ manager' = [manager EXCEPT
                   !.pending = @ \ {s},
                   !.animationFrameId = FreshRequestId,
                   !.requests = @ \cup {[id |-> FreshRequestId, session |-> s]}]
  /\ loop' = [loop EXCEPT !.lastTimestamp = Zero, !.accumulator = Zero]
  /\ IF s = manager.session
     THEN /\ racingPath' = bezierNodes
          /\ totalLaps' = 3
          /\ racers' = CreateRacers(PathPoints(bezierNodes), "grid", rngState)
          /\ rngState' = RngBefore(rngState, NumRacers)
     ELSE UNCHANGED <<racingPath, totalLaps, racers, rngState>>
  /\ UNCHANGED <<bezierNodes, raceFrameCount, raceFinished, pc, idx, now, headless,
                 trackType, trackEditor>>

\* this.racers.forEach(racer => physics.updateRacer(...)) from racer k on
RECURSIVE UpdateRacersFrom(_, _, _, _, _, _, _)
UpdateRacersFrom(rs, k, path, frameCount, laps, rng, time) ==
  IF k > Len(rs) THEN [racers |-> rs, rng |-> rng]
  ELSE UpdateRacersFrom(
         [rs EXCEPT ![k] = updateRacer(rs[k], path, frameCount, laps, rng, time).racer],
         k + 1, path, frameCount, laps,
         updateRacer(rs[k], path, frameCount, laps, rng, time).rng, time)

\* The browser runs the requested animation frame r: gameLoop draws, and
\* unless paused updates, the sessions of gameManager.sessions, and requests
\* the next frame. (Each frame is taken to be one fixed timestep long.)
AnimationFrame(r) ==
  /\ pc = "idle"
  /\ r \in manager.requests
  /\ manager' = [manager EXCEPT
                   !.animationFrameId = FreshRequestId,
                   !.requests = (@ \ {r})
                                \cup {[id |-> FreshRequestId, session |-> r.session]}]
  /\ IF loop.isPaused
     THEN UNCHANGED <<raceFrameCount, now, racers, rngState, raceFinished>>
     ELSE /\ raceFrameCount < MaxModeFrames
          /\ raceFrameCount' = raceFrameCount + 1
          /\ now' = now + 17
          /\ racers' = resolveCollisions(
                         UpdateRacersFrom(racers, 1, PathPoints(racingPath),
                                          raceFrameCount + 1, totalLaps, rngState,
                                          now + 17).racers)
          /\ rngState' = UpdateRacersFrom(racers, 1, PathPoints(racingPath),
                                          raceFrameCount + 1, totalLaps, rngState,
                                          now + 17).rng
          /\ raceFinished' = (raceFinished \/ AllFinished(racers'))
  /\ UNCHANGED <<bezierNodes, racingPath, totalLaps, pc, idx, headless, loop,
                 trackType, trackEditor>>

\* The sliders of the player controls here
ParamRacers == {0}
ParamNames == {"engineMap"}
ParamValues == {60, 80}

\* racer.params[param] = value
WithParam(racer, param, value) ==
  CASE param = "tireAggression" -> [racer EXCEPT !.params.tireAggression = value]
    [] param = "engineMap" -> [racer EXCEPT !.params.engineMap = value]
    [] param = "risk" -> [racer EXCEPT !.params.risk = value]

\* gameManager.updateParam(racerId, param, value): GameState.updateParam, then
\* the racer with that id in each session, if there is one
UpdateParam(racerId, param, value) ==
  /\ pc = "idle"
  /\ manager' = [manager EXCEPT
                   !.globalParams[racerId] =
                      [name \in DOMAIN @ |-> IF name = param THEN value ELSE @[name]]]
  /\ racers' = [k \in 1..Len(racers) |->
                  IF racers[k].id = racerId
                  THEN WithParam(racers[k], param, value)
                  ELSE racers[k]]
  /\ UNCHANGED <<bezierNodes, racingPath, totalLaps, raceFrameCount, raceFinished,
                 pc, idx, rngState, now, headless, loop, trackType, trackEditor>>

NextModes ==
  \/ \E mode \in Modes : ChangeMode(mode)
  \/ Restart
  \/ \E s \in manager.pending : InitResolved(s)
  \/ \E r \in manager.requests : AnimationFrame(r)
  \/ \E racerId \in ParamRacers, param \in ParamNames, value \in ParamValues :
       UpdateParam(racerId, param, value)

SpecModes == InitModes /\ [][NextModes]_vars

\* C26: after any sequence of changeMode and restart calls at most one
\* animation frame is requested, animationFrameId identifies it, and its chain
\* was started for the session of the latest changeMode.
C26_SingleGameLoop ==
  /\ Cardinality(manager.requests) <= 1
  /\ \A r \in manager.requests :
       /\ r.id = manager.animationFrameId
       /\ r.session = manager.session

\* Two chains of animation frames are live: changeMode was called again while
\* the init of the previous call was pending, and both inits have resolved
C26_TwoGameLoops ==
  /\ Cardinality(manager.requests) = 2
  /\ manager.pending = {}
  /\ manager.calls = 2

----------------------------------------------------------------------------
(* Pausing                                                                  *)

\* This step is a gameLoop call
LoopCalled == loop'.called # loop.called

\* The time between this gameLoop call and the previous one (none before the
\* first call)
SincePreviousCall ==
  IF loop.called = Zero THEN Zero ELSE DSub(loop'.called, loop.called)

\* A gameLoop call that finds the game paused changes neither the accumulator
\* nor the session and does not reach the update loop; one that does not
\* enters the update loop having added only the time since the previous call
FrozenWhilePaused ==
  LoopCalled =>
    IF loop.isPaused
    THEN /\ loop'.accumulator = loop.accumulator
         /\ loop'.phase = "rest"
         /\ UNCHANGED <<racers, raceFrameCount, raceFinished, pc>>
    ELSE /\ loop'.phase = "while"
         /\ loop'.entered = Accumulate(loop.accumulator, SincePreviousCall)

\* C27: while isPaused a gameLoop call runs no session update and leaves the
\* accumulator unchanged, and the first call after the pause adds only the
\* time since the previous gameLoop call to the accumulator.
C27_PauseFreezesPhysics ==
  [][FrozenWhilePaused]_vars

\* The first gameLoop call after a pause of three frames has reached its update
\* loop: it came 67 ms after the last paused call and 117 ms after the last
\* update, and runs the four updates of 67 ms
C27_Witness ==
  /\ ~loop.isPaused
  /\ loop.pausedCalls = 3
  /\ loop.phase = "while"
  /\ loop.lastTimestamp = Ms(127)
  /\ loop.entered = DSub(Ms(127), Ms(60))
  /\ loop.ticks = 4

----------------------------------------------------------------------------
(* Strategy parameters                                                      *)

\* C28: for every player racer of the session, the strategy GameState holds
\* for its id (the one the player controls display) is the strategy in
\* racer.params (the one the physics uses).
C28_StrategyAgrees ==
  \A k \in 1..Len(racers) :
    racers[k].isPlayer => manager.globalParams[racers[k].id] = racers[k].params

\* After a slider was moved to 80 the race was restarted: GameState still holds
\* 80, the new racer has the 60 of RaceSession.init
C28_StaleDisplay ==
  /\ manager.calls = 2
  /\ manager.pending = {}
  /\ racers # <<>>
  /\ manager.globalParams[0].engineMap = 80
  /\ racers[1].id = 0
  /\ racers[1].params.engineMap = 60

----------------------------------------------------------------------------
(* Racer.state                                                              *)

\* C29: a racer's state is 'finished' exactly if the racer is finished, and it
\* is 'waiting' only before the racer's own launch frame.
C29_StateFollowsRace ==
  \A k \in 1..Len(racers) :
    /\ racers[k].state = "finished" <=> racers[k].finished
    /\ racers[k].state = "waiting" => BeforeLaunch(racers[k], raceFrameCount)

\* A tick has ended in which updateRacer finished a racer; its state is still
\* the 'waiting' of the constructor
C29_FinishedWhileWaiting ==
  /\ pc = "idle"
  /\ \E k \in 1..Len(racers) :
       /\ racers[k].finished
       /\ racers[k].finishTime = now
       /\ racers[k].state = "waiting"

----------------------------------------------------------------------------
(* Steering                                                                 *)

\* maxSteerAngle * maxSteerMultiplier + steeringRandomNoise / 2
SteerBound(racer) ==
  Div(GAME_CONFIG.maxSteerAngle * getBikeArchetype(racer).maxSteerMultiplier, 1000)
  + Div(GAME_CONFIG.steeringRandomNoise, 2)

\* The angular error updateRacer computes for the racer in this call, after
\* its two while loops
NormalizedError(racer, frameCount) ==
  SteeringError(racer, Path, SteeringTarget(racer, Path, frameCount)).angDiff

\* An updateRacer call of the lone racer past its start gating turns it by at
\* most SteerBound, and its angular error is in (-pi, pi]
SteeringBounded ==
  (pc = "solo" /\ ~BeforeStart(raceFrameCount')
               /\ ~BeforeLaunch(Before, raceFrameCount')) =>
    /\ Abs(After.angle - Before.angle) <= SteerBound(Before)
    /\ NormalizedError(Before, raceFrameCount') > -314
    /\ NormalizedError(Before, raceFrameCount') <= 314

\* C30: in every updateRacer call past the start gating the angle changes by at
\* most maxSteerAngle * maxSteerMultiplier + steeringRandomNoise / 2, whatever
\* the angular error, which is first normalised into (-pi, pi].
C30_SteeringBounded ==
  [][SteeringBounded]_vars

\* The racer that started against the track has been turned by the full
\* steering angle while its angular error was beyond the emergency threshold
C30_Witness ==
  /\ pc = "solo"
  /\ raceFrameCount >= GAME_CONFIG.startDelayFrames + racers[1].launchDelay
  /\ Abs(racers[1].angle - 314) >= 2 * SteerBound(racers[1]) - 4
  /\ Abs(racers[1].angle - 314) <= 2 * SteerBound(racers[1])
  /\ Abs(NormalizedError(racers[1], raceFrameCount + 1))
       > GAME_CONFIG.emergencyTurnThreshold

====
